---- MODULE Spec2Model ----
(***************************************************************************)
(* The career-guidance browser client: the API client (services/api.ts),   *)
(* the survey flow controller (Survey), the learning-roadmap view          *)
(* (Learning) with its localStorage cache, and the routes between them.    *)
(*                                                                         *)
(* JavaScript runs each handler to its next await without interleaving, so *)
(* one action is one such run: a user event, or the arrival of a response  *)
(* together with everything the awaiting handler does until it awaits      *)
(* again or returns.                                                       *)
(***************************************************************************)
EXTENDS Integers, Sequences, FiniteSets, TLC

(***************************************************************************)
(* Bounds of the model.                                                    *)
(***************************************************************************)
\* start-session requests over the whole run (survey mounts and reloads)
MaxStarts == 2
\* complete-survey requests over the whole run
MaxCompletes == 2
\* generate-learning-roadmap requests over a run of the whole application
MaxAppRoadmapRequests == 2
\* generate-learning-roadmap requests over a run of the Learning view
MaxRoadmapRequests == 4
\* the wall clock of the whole application runs from 0 to MaxTime, in ticks
\* of 30 minutes
MaxTime == 2
\* the timestamps the Learning view may find in localStorage, in ticks
MaxStamp == 5
\* Mentors instances mounted over a run of the Mentors view
MaxMentorLoads == 3
\* clicks on Find Mentors over a run of the Mentors view
MaxPayloadWrites == 2
\* at most this many characters in a text drawn from TextChars
MaxTextLen == 3
\* get-industry-trends requests over a run of the Growth view
MaxTrendRequests == 5
\* characters of the answer recorded for a checkbox question
MaxAnswerLen == 10

\* 60 * 60 * 1000 ms, in ticks of 30 minutes
HourTicks == 2
\* recommendations.slice(0, 3)
TopN == 3

(***************************************************************************)
(* JavaScript values.  null and undefined are NULL where a string is       *)
(* expected, JsonNull where an object is expected, and the empty sequence  *)
(* where a localStorage item is expected (None / Some).                    *)
(***************************************************************************)
NULL == "null"
JsonNull == [null |-> TRUE]
None == <<>>
Some(x) == <<x>>
EmptyObject == [k \in {} |-> ""]

\* obj.f is neither undefined nor null (all fields of the bodies below that
\* are present hold arrays, objects or non-empty strings)
Has(obj, f) == f \in DOMAIN obj

\* truthiness of a string-valued answer: undefined and "" are falsy.  A
\* missing key of `answers` is represented by "".
Truthy(v) == v /= ""

\* { ...a, ...b }
Spread(a, b) ==
  [k \in DOMAIN a \cup DOMAIN b |-> IF k \in DOMAIN b THEN b[k] ELSE a[k]]

\* obj[k], undefined (falsy) when the key is missing
Get(obj, k) == IF k \in DOMAIN obj THEN obj[k] ELSE ""

\* { ...obj, [k]: v }
Put(obj, k, v) == [x \in DOMAIN obj \cup {k} |-> IF x = k THEN v ELSE obj[x]]

(***************************************************************************)
(* The data the server and the user may supply.  An initial and an         *)
(* adaptive question may carry the same id ("q1", "a1"): `answers` is      *)
(* keyed by id alone.                                                      *)
(***************************************************************************)
QIds == {"q1", "q2", "q3", "q4", "q5", "a1", "a2", "a3"}
\* what the user may enter for a question: q1 offers two values, so that an
\* answer can change between the phases
Values(id) == IF id = "q1" THEN {"x", "y"} ELSE {"x"}
Question(id, required) == [id |-> id, required |-> required]

InitialQuestionLists ==
  { <<>>, <<Question("q1", TRUE), Question("a1", FALSE)>> }

AdaptiveQuestionLists ==
  { <<>>, <<Question("q1", FALSE), Question("a1", TRUE)>> }

\* session_data objects a submit-initial-answers response may carry: the
\* server's own value for q1, a falsy value for a1, a key of its own
ServerSessionData ==
  { [k \in {"q1", "a1", "profile"} |-> IF k = "a1" THEN "" ELSE "srv"] }

ShortRecommendationLists == { <<>>, <<"c1">> }
RecommendationLists ==
  { <<"c1">>, <<"c1", "c2", "c3">>, <<"c1", "c2", "c3", "c4">> }

StartSessionBodies(lists) ==
  {JsonNull} \cup {[session_id |-> "s1", questions |-> qs] : qs \in lists}

SubmitInitialBodies(lists) ==
  {JsonNull}
    \cup {[adaptive_questions |-> aq] : aq \in lists}
    \cup {[adaptive_questions |-> aq, session_data |-> sd] :
            aq \in lists, sd \in ServerSessionData}

CompleteSurveyBodies(lists) ==
  {JsonNull} \cup {[recommendations |-> r] : r \in lists}

Roadmap(career) == [career_title |-> career]
RoadmapBodies(career) == {JsonNull, Roadmap(career)}

(***************************************************************************)
(* What one HTTP exchange can come to: fetch() rejects (transport), or it  *)
(* resolves with a status and a body that response.json() parses (Some) or *)
(* rejects (None).                                                         *)
(***************************************************************************)
Statuses == {200, 500}

HttpOutcomesWith(statuses, bodies) ==
  {[transport |-> "failed", status |-> 0, body |-> None]}
    \cup {[transport |-> "ok", status |-> s, body |-> b] :
            s \in statuses, b \in {None} \cup {Some(x) : x \in bodies}}

HttpOutcomes(bodies) == HttpOutcomesWith(Statuses, bodies)

\* Response.ok
ResponseOk(status) == status >= 200 /\ status <= 299

HttpErrorMessage(status) ==
  CASE status = 404 -> "HTTP error! status: 404"
    [] status = 500 -> "HTTP error! status: 500"
    [] OTHER -> "HTTP error! status"

(***************************************************************************)
(* ApiService (services/api.ts).  A result is {data, error}: `error` is    *)
(* NULL on success (fetchWithErrorHandling leaves it undefined,            *)
(* generateLearningRoadmap sets it to null; callers only test its          *)
(* truthiness), `data` is JsonNull in the error variant.                   *)
(***************************************************************************)
SuccessResult(data) == [data |-> data, error |-> NULL]
ErrorResult(message) == [data |-> JsonNull, error |-> message]

\* what a try block comes to: it throws an Error, or it completes with data
Thrown(message) == [threw |-> TRUE, message |-> message]
Completed(data) == [threw |-> FALSE, data |-> data]

TryFetchIgnoringStatus(outcome) ==
  IF outcome.transport = "failed" THEN Thrown("Failed to fetch")
  ELSE IF outcome.body = None THEN Thrown("Unexpected end of JSON input")
  ELSE Completed(outcome.body[1])

\* the try block of fetchWithErrorHandling: await fetch(), the response.ok
\* test, await response.json()
TryFetch(outcome) ==
  IF outcome.transport = "failed" THEN Thrown("Failed to fetch")
  ELSE IF ~ResponseOk(outcome.status)
    THEN Thrown(HttpErrorMessage(outcome.status))
  ELSE IF outcome.body = None THEN Thrown("Unexpected end of JSON input")
  ELSE Completed(outcome.body[1])

\* try { ... return { data } } catch (error) { return { data: null, error } }
FetchWithErrorHandling(outcome) ==
  LET try == TryFetch(outcome) IN
  IF try.threw THEN ErrorResult(try.message) ELSE SuccessResult(try.data)

StartSessionIgnoringErrors(outcome) ==
  SuccessResult(IF outcome.body = None THEN JsonNull ELSE outcome.body[1])

StartSession(outcome) == FetchWithErrorHandling(outcome)
SubmitInitialAnswers(outcome) == FetchWithErrorHandling(outcome)
CompleteSurvey(outcome) == FetchWithErrorHandling(outcome)

\* generateLearningRoadmap, getIndustryTrends, getLearningRoadmapForCareer
\* and getTrendsForField carry their own copy of the try/catch
TryFetchInline(outcome) ==
  IF outcome.transport = "failed" THEN Thrown("Failed to fetch")
  ELSE IF ~ResponseOk(outcome.status)
    THEN Thrown(HttpErrorMessage(outcome.status))
  ELSE IF outcome.body = None THEN Thrown("Unexpected end of JSON input")
  ELSE Completed(outcome.body[1])

GenerateLearningRoadmap(outcome) ==
  LET try == TryFetchInline(outcome) IN
  IF try.threw THEN ErrorResult(try.message) ELSE SuccessResult(try.data)

\* the operations of ApiService
WrappedOperations ==
  {"getCareers", "getCareerById", "getMentors", "getRecommendations",
   "getAdaptiveQuestions", "getSummaryRoadmap", "matchMentors", "getSkillGap",
   "getHealthCheck", "startSession", "submitInitialAnswers", "completeSurvey",
   "getPersonalizedMentors"}
InlineOperations ==
  {"generateLearningRoadmap", "getIndustryTrends",
   "getLearningRoadmapForCareer", "getTrendsForField"}
ApiOperations == WrappedOperations \cup InlineOperations

\* what the promise of apiService[op](...) resolves to
ApiResult(op, outcome) ==
  IF op \in WrappedOperations THEN FetchWithErrorHandling(outcome)
  ELSE GenerateLearningRoadmap(outcome)

(***************************************************************************)
(* State.                                                                  *)
(***************************************************************************)
VARIABLES
  route,                 \* the mounted view: "dashboard", "survey",
                         \* "recommendations" or "learning"
  now,                   \* the wall clock (Date.now()), in ticks
  \* Survey component state (useState)
  currentStep, initialQuestions, adaptiveQuestions, currentQuestionIndex,
  answers, isSubmitting, isLoading, error, sessionId, sessionData,
  surveyCalls,           \* survey requests in flight, each with the closure
                         \* of the handler awaiting it
  navTimers,             \* pending setTimeout(navigate('/recommendations')),
                         \* each named by the Survey instance that set it
  handedOff,             \* history: the Survey instances whose timer has fired
  completedSinceLoad,    \* history: a survey was completed after the last
                         \* load of the Learning view
  requests,              \* number of requests sent so far, per endpoint
  \* localStorage
  surveyResults, learningRoadmaps, learningRoadmapsTimestamp,
  \* Learning component state
  roadmaps, selectedCareer, learningIsLoading, learningError,
  roadmapCalls,          \* fetchLearningRoadmaps runs awaiting Promise.all
  \* Recommendations component state
  recommendations,
  \* ApiService call under test (SpecApi)
  apiCall,
  mentorMatchingData,    \* localStorage, written by Find Mentors
  \* Mentors component state
  mentors, filteredMentors, isPersonalized, mentorsIsLoading, mentorsError,
  mentorCalls,           \* fetchMentors runs awaiting a response
  mentorsInstance,       \* number of Mentors instances mounted so far
  payloadWrites,         \* history: number of Find Mentors writes so far
  payloadUses,           \* history: personalized requests sent per write
                         \* (write 0 is what storage held at the start)
  \* text rendering under test (SpecText)
  rawText,               \* the value handed to the normalizers
  roadmapText,           \* formatRoadmapText(rawText), once rendered
  roadmapTextTwice,      \* formatRoadmapText of that output
  trendText,             \* formatTrendText(rawText), once rendered
  \* Growth component state
  selectedField, selectedPeriod, trends, growthIsLoading, growthError,
  trendCalls,            \* fetchTrends runs awaiting a response
  growthInstance,        \* number of Growth instances mounted so far
  trendRequests,         \* number of get-industry-trends requests sent
  \* a checkbox question on display
  checkboxOptions,       \* currentQuestion.options
  checkboxAnswer,        \* answers[currentQuestion.id]
  checkboxLast           \* the last click on one of its checkboxes

surveyVars ==
  <<currentStep, initialQuestions, adaptiveQuestions, currentQuestionIndex,
    answers, isSubmitting, isLoading, error, sessionId, sessionData>>
storageVars == <<surveyResults, learningRoadmaps, learningRoadmapsTimestamp>>
learningVars == <<roadmaps, selectedCareer, learningIsLoading, learningError>>
timerVars == <<navTimers, handedOff>>
mentorVars ==
  <<mentorMatchingData, mentors, filteredMentors, isPersonalized,
    mentorsIsLoading, mentorsError, mentorCalls, mentorsInstance,
    payloadWrites, payloadUses>>
textVars == <<rawText, roadmapText, roadmapTextTwice, trendText>>
growthVars ==
  <<selectedField, selectedPeriod, trends, growthIsLoading, growthError,
    trendCalls, growthInstance, trendRequests>>
checkboxVars == <<checkboxOptions, checkboxAnswer, checkboxLast>>
pageVars == <<textVars, growthVars, checkboxVars>>
vars ==
  <<route, now, surveyVars, surveyCalls, timerVars, requests, storageVars,
    learningVars, roadmapCalls, recommendations, apiCall, completedSinceLoad,
    mentorVars, pageVars>>

Endpoints ==
  {"start-session", "submit-initial-answers", "complete-survey",
   "generate-learning-roadmap", "match-mentors", "mentors"}

NoAnswers == [id \in QIds |-> ""]

\* s without its i-th element
RemoveAt(s, i) == [j \in 1..(Len(s) - 1) |-> IF j < i THEN s[j] ELSE s[j + 1]]

Sent(endpoint) == [requests EXCEPT ![endpoint] = @ + 1]

(***************************************************************************)
(* Survey: derived values of a render.                                     *)
(***************************************************************************)
getCurrentQuestions ==
  IF currentStep = "initial" THEN initialQuestions
  ELSE IF currentStep = "adaptive" THEN adaptiveQuestions
  ELSE <<>>

currentQuestions == getCurrentQuestions

\* currentQuestions[currentQuestionIndex] || null
HasCurrentQuestion ==
  currentQuestionIndex >= 0 /\ currentQuestionIndex < Len(currentQuestions)
currentQuestion == currentQuestions[currentQuestionIndex + 1]

canProceedAnsweredOnly ==
  ~HasCurrentQuestion \/ Truthy(answers[currentQuestion.id])

canProceed ==
  ~HasCurrentQuestion
    \/ ~currentQuestion.required
    \/ Truthy(answers[currentQuestion.id])

SurveyScreenQuestionFirst ==
  IF route /= "survey" THEN "unmounted"
  ELSE IF isLoading THEN "loading"
  ELSE IF HasCurrentQuestion THEN "question"
  ELSE IF error /= NULL THEN "error"
  ELSE "no-questions"

\* which of the four screens the Survey renders
SurveyScreen ==
  IF route /= "survey" THEN "unmounted"
  ELSE IF isLoading THEN "loading"
  ELSE IF error /= NULL THEN "error"
  ELSE IF ~HasCurrentQuestion THEN "no-questions"
  ELSE "question"

QuestionDisplayed == SurveyScreen = "question"

\* disabled={!canProceed || isSubmitting}
NextDisabled == ~canProceed \/ isSubmitting

\* what the input of the displayed question can be set to ("" clears it)
AnswerChoices ==
  IF HasCurrentQuestion THEN Values(currentQuestion.id) \cup {""} ELSE {}

(***************************************************************************)
(* Conversions between values and the strings localStorage holds.          *)
(* new Date().toISOString() is modelled by IsoString and                   *)
(* new Date(s).getTime() by DateGetTime; Date.now().toString() by          *)
(* DigitString and parseInt by ParseInt.                                   *)
(***************************************************************************)
IsoString(t) == [iso |-> t]
DateGetTime(s) == s.iso
DigitString(t) == [digits |-> t]
ParseInt(s) == s.digits

(***************************************************************************)
(* Survey: handleInitialComplete and handleSurveyComplete up to the await. *)
(***************************************************************************)
\* initialQuestions.forEach(q => { if (answers[q.id]) initialAnswers[q.id] = ... })
RECURSIVE CollectAnswered(_, _, _)
CollectAnswered(all, questions, ans) ==
  IF questions = <<>> THEN all
  ELSE LET q == Head(questions) IN
       CollectAnswered(
         IF Truthy(ans[q.id]) THEN Put(all, q.id, ans[q.id]) ELSE all,
         Tail(questions), ans)

\* initialQuestions.forEach(q => { if (answers[q.id] && !allAnswers[q.id]) ... })
RECURSIVE CollectMissing(_, _, _)
CollectMissing(all, questions, ans) ==
  IF questions = <<>> THEN all
  ELSE LET q == Head(questions) IN
       CollectMissing(
         IF Truthy(ans[q.id]) /\ ~Truthy(Get(all, q.id))
           THEN Put(all, q.id, ans[q.id]) ELSE all,
         Tail(questions), ans)

InitialAnswersOfAll(iq, ans) == [id \in {iq[i].id : i \in 1..Len(iq)} |-> ans[id]]

InitialAnswers(iq, ans) == CollectAnswered(EmptyObject, iq, ans)

AllAnswersFirstWins(sd, iq, aq, ans) ==
  CollectMissing(CollectMissing(sd, iq, ans), aq, ans)

\* allAnswers of handleSurveyComplete, from the values its closure holds
AllAnswers(sd, iq, aq, ans) ==
  CollectAnswered(CollectMissing(sd, iq, ans), aq, ans)

\* the values of the render whose handlers are running
Closure ==
  [sessionId |-> sessionId, sessionData |-> sessionData, answers |-> answers,
   initialQuestions |-> initialQuestions,
   adaptiveQuestions |-> adaptiveQuestions]

SubmitInitialCall(cl, inst) ==
  [op |-> "submit-initial-answers", inst |-> inst,
   request |-> [session_id |-> cl.sessionId,
                session_data |-> InitialAnswers(cl.initialQuestions, cl.answers)],
   closure |-> cl]

\* the request goes out without the session id
CompleteSurveyCallWithoutSession(cl, inst) ==
  [op |-> "complete-survey", inst |-> inst,
   request |-> [session_id |-> NULL,
                session_data |-> AllAnswers(cl.sessionData, cl.initialQuestions,
                                            cl.adaptiveQuestions, cl.answers)]]

CompleteSurveyCall(cl, inst) ==
  [op |-> "complete-survey", inst |-> inst,
   request |-> [session_id |-> cl.sessionId,
                session_data |-> AllAnswers(cl.sessionData, cl.initialQuestions,
                                            cl.adaptiveQuestions, cl.answers)]]

StartSessionCall(inst) == [op |-> "start-session", inst |-> inst]

\* The mounted Survey is the instance numbered by the start-session requests
\* sent so far; a call is live while the instance that made it is mounted.
Instance == requests["start-session"]
\* the setState calls of any Survey instance reach the mounted one
LiveWhateverInstance(call) == route = "survey"

Live(call) == route = "survey" /\ call.inst = Instance

(***************************************************************************)
(* Mounting and unmounting the views.  React drops the state of an         *)
(* unmounted component and ignores its later setState calls; nothing       *)
(* aborts its requests, so the handlers awaiting them still run, with the  *)
(* values of their closures (they are not Live).                           *)
(***************************************************************************)
SetSurvey(step, iq, aq, idx, ans, submitting, loading, err, sid, sd) ==
  /\ currentStep' = step
  /\ initialQuestions' = iq
  /\ adaptiveQuestions' = aq
  /\ currentQuestionIndex' = idx
  /\ answers' = ans
  /\ isSubmitting' = submitting
  /\ isLoading' = loading
  /\ error' = err
  /\ sessionId' = sid
  /\ sessionData' = sd

\* the useState initial values
SurveyInitialState ==
  SetSurvey("initial", <<>>, <<>>, 0, NoAnswers, FALSE, TRUE, NULL, NULL,
            EmptyObject)

SetLearning(rm, sel, loading, err) ==
  /\ roadmaps' = rm
  /\ selectedCareer' = sel
  /\ learningIsLoading' = loading
  /\ learningError' = err

LearningInitialState == SetLearning(<<>>, None, TRUE, NULL)

\* what the Learning view renders
LearningScreen ==
  IF learningIsLoading THEN "loading"
  ELSE IF learningError /= NULL THEN "error"
  ELSE "roadmaps"

IsTransition(call) == call.op /= "start-session"

\* the calls of an unmounted Survey: a late start-session response only
\* calls setState, which React ignores, so that call is dropped here
Detached(calls) == SelectSeq(calls, IsTransition)

DetachedFanoutsCancelled(calls) == <<>>

\* the fan-outs of an unmounted Learning view stay in flight: only their
\* setState calls are lost
DetachedFanouts(calls) ==
  [i \in 1..Len(calls) |-> [calls[i] EXCEPT !.live = FALSE]]

HasStoredRecommendationsField ==
  /\ surveyResults /= None
  /\ Has(surveyResults[1], "recommendations")

\* JSON.parse(surveyResults).recommendations is a non-empty array
HasStoredRecommendations ==
  /\ surveyResults /= None
  /\ Has(surveyResults[1], "recommendations")
  /\ Len(surveyResults[1].recommendations) > 0

CacheIsFreshWithoutGrace ==
  /\ learningRoadmaps /= None
  /\ learningRoadmapsTimestamp /= None
  /\ ParseInt(learningRoadmapsTimestamp[1])
       > DateGetTime(surveyResults[1].completedAt)
  /\ Len(learningRoadmaps[1]) > 0

\* Learning.fetchLearningRoadmaps: the stored roadmaps are used
CacheIsFresh ==
  /\ learningRoadmaps /= None
  /\ learningRoadmapsTimestamp /= None
  /\ ParseInt(learningRoadmapsTimestamp[1])
       > DateGetTime(surveyResults[1].completedAt) - HourTicks
  /\ Len(learningRoadmaps[1]) > 0

Min(a, b) == IF a < b THEN a ELSE b

TopCareersUnsliced(recs) == recs

\* recommendations.slice(0, 3)
TopCareers(recs) == SubSeq(recs, 1, Min(TopN, Len(recs)))

Pending == [state |-> "pending"]
Failed == [state |-> "null"]

FanoutCall(careers) ==
  [live |-> TRUE, careers |-> careers,
   results |-> [i \in 1..Len(careers) |-> Pending]]

\* Learning and Recommendations send the user to /survey when there is no
\* stored result with recommendations
Redirected(target) ==
  IF target \in {"learning", "recommendations"} /\ ~HasStoredRecommendations
    THEN "survey" ELSE target

\* The router shows `target`: the mounted view unmounts, the new one mounts
\* and its useEffect runs up to its first await.
GoTo(target) ==
  LET r == Redirected(target)
      regenerate == r = "learning" /\ ~CacheIsFresh
      careers == TopCareers(surveyResults[1].recommendations)
  IN
  /\ route' = r
  /\ r = "survey" => requests["start-session"] < MaxStarts
  /\ IF r = "survey"
       THEN /\ SurveyInitialState
            /\ surveyCalls' =
                 Append(Detached(surveyCalls), StartSessionCall(Instance + 1))
       ELSE IF route = "survey"
         THEN /\ SurveyInitialState
              /\ surveyCalls' = Detached(surveyCalls)
         ELSE UNCHANGED <<surveyVars, surveyCalls>>
  /\ IF r = "learning"
       THEN IF CacheIsFresh
         THEN /\ SetLearning(learningRoadmaps[1], Some(learningRoadmaps[1][1]),
                             FALSE, NULL)
              /\ roadmapCalls' = DetachedFanouts(roadmapCalls)
         ELSE /\ LearningInitialState
              /\ roadmapCalls' =
                   Append(DetachedFanouts(roadmapCalls), FanoutCall(careers))
       ELSE IF route = "learning"
         THEN /\ LearningInitialState
              /\ roadmapCalls' = DetachedFanouts(roadmapCalls)
         ELSE UNCHANGED <<learningVars, roadmapCalls>>
  /\ recommendations' =
       IF r = "recommendations" THEN surveyResults[1].recommendations ELSE <<>>
  /\ completedSinceLoad' = IF r = "learning" THEN FALSE ELSE completedSinceLoad
  /\ requests' =
       IF r = "survey" THEN Sent("start-session")
       ELSE IF regenerate
         THEN [requests EXCEPT !["generate-learning-roadmap"] = @ + Len(careers)]
       ELSE requests

Routes == {"dashboard", "survey", "recommendations", "learning"}

\* bound of a run: the step leaves the number of roadmap requests within max
RoadmapBudget(max) == requests'["generate-learning-roadmap"] <= max

\* a click on a link of the sidebar or of a view
NavigateTo(target) ==
  /\ target /= route
  /\ GoTo(target)
  /\ UNCHANGED <<now, timerVars, storageVars, apiCall, pageVars, mentorVars>>

\* window.location.reload() (the Retry and Reload Survey buttons): the page
\* and every handler of it are gone, the Survey mounts anew
Reload ==
  /\ SurveyScreen \in {"error", "no-questions"}
  /\ requests["start-session"] < MaxStarts
  /\ SurveyInitialState
  /\ surveyCalls' = <<StartSessionCall(Instance + 1)>>
  /\ roadmapCalls' = <<>>
  /\ navTimers' = <<>>
  /\ UNCHANGED handedOff
  /\ requests' = Sent("start-session")
  /\ UNCHANGED <<route, now, storageVars, learningVars, recommendations, apiCall, pageVars, mentorVars, completedSinceLoad>>

Tick ==
  /\ now < MaxTime
  /\ now' = now + 1
  /\ UNCHANGED <<route, surveyVars, surveyCalls, timerVars, requests,
                 storageVars, learningVars, roadmapCalls, recommendations,
                 apiCall, pageVars, mentorVars, completedSinceLoad>>

(***************************************************************************)
(* Survey handlers.                                                        *)
(***************************************************************************)
StartSessionResponseRetrying(i, outcome) ==
  LET response == StartSession(outcome) IN
  /\ i \in 1..Len(surveyCalls)
  /\ surveyCalls[i].op = "start-session"
  /\ IF response.error /= NULL
       THEN /\ requests["start-session"] < MaxStarts + 1
            /\ requests' = Sent("start-session")
            /\ UNCHANGED <<surveyCalls, initialQuestions, sessionId, error,
                           isLoading>>
       ELSE /\ surveyCalls' = RemoveAt(surveyCalls, i)
            /\ isLoading' = FALSE
            /\ UNCHANGED requests
            /\ IF Has(response.data, "questions")
                 THEN /\ initialQuestions' = response.data.questions
                      /\ sessionId' = response.data.session_id
                      /\ UNCHANGED error
                 ELSE /\ error' = "No questions received from server"
                      /\ UNCHANGED <<initialQuestions, sessionId>>
  /\ UNCHANGED <<currentStep, adaptiveQuestions, currentQuestionIndex, answers,
                 isSubmitting, sessionData>>
  /\ UNCHANGED <<route, now, timerVars, storageVars, learningVars,
                 roadmapCalls, recommendations, apiCall, pageVars, mentorVars,
                 completedSinceLoad>>

\* initializeSession, from the response of start-session on
StartSessionResponse(i, outcome) ==
  LET response == StartSession(outcome) IN
  /\ i \in 1..Len(surveyCalls)
  /\ surveyCalls[i].op = "start-session"
  /\ surveyCalls' = RemoveAt(surveyCalls, i)
  /\ IF response.error /= NULL
       THEN /\ error' = response.error
            /\ UNCHANGED <<initialQuestions, sessionId>>
       ELSE IF Has(response.data, "questions")
         THEN /\ initialQuestions' = response.data.questions
              /\ sessionId' = response.data.session_id
              /\ UNCHANGED error
         ELSE /\ error' = "No questions received from server"
              /\ UNCHANGED <<initialQuestions, sessionId>>
  /\ isLoading' = FALSE
  /\ UNCHANGED <<currentStep, adaptiveQuestions, currentQuestionIndex, answers,
                 isSubmitting, sessionData>>
  /\ UNCHANGED <<route, now, timerVars, requests, storageVars, learningVars,
                 roadmapCalls, recommendations, apiCall, pageVars, mentorVars, completedSinceLoad>>

\* onValueChange / onChange of the displayed question's input
SetAnswer(value) ==
  /\ QuestionDisplayed
  /\ answers' = [answers EXCEPT ![currentQuestion.id] = value]
  /\ UNCHANGED <<currentStep, initialQuestions, adaptiveQuestions,
                 currentQuestionIndex, isSubmitting, isLoading, error,
                 sessionId, sessionData>>
  /\ UNCHANGED <<route, now, surveyCalls, timerVars, requests, storageVars,
                 learningVars, roadmapCalls, recommendations, apiCall, pageVars, mentorVars, completedSinceLoad>>

PreviousAlwaysEnabled ==
  /\ QuestionDisplayed
  /\ currentQuestionIndex' = currentQuestionIndex - 1
  /\ UNCHANGED <<currentStep, initialQuestions, adaptiveQuestions, answers,
                 isSubmitting, isLoading, error, sessionId, sessionData>>
  /\ UNCHANGED <<route, now, surveyCalls, timerVars, requests, storageVars,
                 learningVars, roadmapCalls, recommendations, apiCall, pageVars, mentorVars,
                 completedSinceLoad>>

\* the Previous button
Previous ==
  /\ QuestionDisplayed
  /\ currentQuestionIndex /= 0
  /\ currentQuestionIndex' = currentQuestionIndex - 1
  /\ UNCHANGED <<currentStep, initialQuestions, adaptiveQuestions, answers,
                 isSubmitting, isLoading, error, sessionId, sessionData>>
  /\ UNCHANGED <<route, now, surveyCalls, timerVars, requests, storageVars,
                 learningVars, roadmapCalls, recommendations, apiCall, pageVars, mentorVars, completedSinceLoad>>

\* handleInitialComplete up to its await
handleInitialComplete ==
  /\ isSubmitting' = TRUE
  /\ surveyCalls' = Append(surveyCalls, SubmitInitialCall(Closure, Instance))
  /\ requests' = Sent("submit-initial-answers")

\* handleSurveyComplete up to its await, called by handleNext
handleSurveyComplete ==
  /\ requests["complete-survey"] < MaxCompletes
  /\ isSubmitting' = TRUE
  /\ surveyCalls' = Append(surveyCalls, CompleteSurveyCall(Closure, Instance))
  /\ requests' = Sent("complete-survey")

\* the Next button
HandleNext ==
  /\ QuestionDisplayed
  /\ ~NextDisabled
  /\ IF currentQuestionIndex < Len(currentQuestions) - 1
       THEN /\ currentQuestionIndex' = currentQuestionIndex + 1
            /\ UNCHANGED <<isSubmitting, surveyCalls, requests>>
       ELSE /\ IF currentStep = "initial" THEN handleInitialComplete
               ELSE handleSurveyComplete
            /\ UNCHANGED currentQuestionIndex
  /\ UNCHANGED <<currentStep, initialQuestions, adaptiveQuestions, answers,
                 isLoading, error, sessionId, sessionData>>
  /\ UNCHANGED <<route, now, timerVars, storageVars, learningVars,
                 roadmapCalls, recommendations, apiCall, pageVars, mentorVars, completedSinceLoad>>

\* response.data.session_data, {} when the field is missing
SessionDataOf(data) ==
  IF Has(data, "session_data") THEN data.session_data ELSE EmptyObject

\* handleInitialComplete, from the response of submit-initial-answers on
SubmitInitialResponse(i, outcome) ==
  LET call == surveyCalls[i]
      response == SubmitInitialAnswers(outcome)
  IN
  /\ i \in 1..Len(surveyCalls)
  /\ call.op = "submit-initial-answers"
  /\ IF response.error /= NULL
       THEN \* catch: setError; finally: setIsSubmitting(false)
         /\ surveyCalls' = RemoveAt(surveyCalls, i)
         /\ IF Live(call)
              THEN /\ error' = response.error
                   /\ isSubmitting' = FALSE
              ELSE UNCHANGED <<error, isSubmitting>>
         /\ UNCHANGED <<adaptiveQuestions, sessionData, currentStep,
                        currentQuestionIndex, requests>>
       ELSE IF Has(response.data, "adaptive_questions")
         THEN
           /\ surveyCalls' = RemoveAt(surveyCalls, i)
           /\ IF Live(call)
                THEN /\ adaptiveQuestions' = response.data.adaptive_questions
                     /\ sessionData' = Spread(call.request.session_data,
                                              SessionDataOf(response.data))
                     /\ currentStep' = "adaptive"
                     /\ currentQuestionIndex' = 0
                     /\ isSubmitting' = FALSE
                ELSE UNCHANGED <<adaptiveQuestions, sessionData, currentStep,
                                 currentQuestionIndex, isSubmitting>>
           /\ UNCHANGED <<error, requests>>
         ELSE \* await handleSurveyComplete(), with the closure of the click
           /\ requests["complete-survey"] < MaxCompletes
           /\ surveyCalls' =
                [surveyCalls EXCEPT ![i] = CompleteSurveyCall(call.closure, call.inst)]
           /\ requests' = Sent("complete-survey")
           /\ UNCHANGED <<adaptiveQuestions, sessionData, currentStep,
                          currentQuestionIndex, isSubmitting, error>>
  /\ UNCHANGED <<initialQuestions, answers, isLoading, sessionId>>
  /\ UNCHANGED <<route, now, timerVars, storageVars, learningVars,
                 roadmapCalls, recommendations, apiCall, pageVars, mentorVars, completedSinceLoad>>

RecommendationsOfFirstThree(data) ==
  IF Has(data, "recommendations")
    THEN SubSeq(data.recommendations, 1, Min(3, Len(data.recommendations)))
    ELSE <<>>

\* response.data?.recommendations || []
RecommendationsOf(data) ==
  IF Has(data, "recommendations") THEN data.recommendations ELSE <<>>

SurveyResults(call, data, time) ==
  [sessionId |-> call.request.session_id,
   sessionData |-> call.request.session_data,
   recommendations |-> RecommendationsOf(data),
   completedAt |-> IsoString(time)]

\* handleSurveyComplete, from the response of complete-survey on
CompleteSurveyResponse(i, outcome) ==
  LET call == surveyCalls[i]
      response == CompleteSurvey(outcome)
  IN
  /\ i \in 1..Len(surveyCalls)
  /\ call.op = "complete-survey"
  /\ surveyCalls' = RemoveAt(surveyCalls, i)
  /\ IF response.error /= NULL
       THEN /\ error' = IF Live(call) THEN response.error ELSE error
            /\ UNCHANGED <<storageVars, timerVars, completedSinceLoad>>
       ELSE /\ surveyResults' = Some(SurveyResults(call, response.data, now))
            /\ learningRoadmaps' = None
            /\ learningRoadmapsTimestamp' = None
            /\ navTimers' = Append(navTimers, call.inst)
            /\ completedSinceLoad' = TRUE
            /\ UNCHANGED <<error, handedOff>>
  /\ isSubmitting' = IF Live(call) THEN FALSE ELSE isSubmitting
  /\ UNCHANGED <<currentStep, initialQuestions, adaptiveQuestions,
                 currentQuestionIndex, answers, isLoading, sessionId,
                 sessionData>>
  /\ UNCHANGED <<route, now, requests, learningVars, roadmapCalls,
                 recommendations, apiCall, pageVars, mentorVars>>

\* setTimeout(() => navigate('/recommendations'), 100) fires
NavigateTimer ==
  /\ navTimers /= <<>>
  /\ navTimers' = Tail(navTimers)
  /\ handedOff' = handedOff \cup {Head(navTimers)}
  /\ IF route = "recommendations"
       THEN UNCHANGED <<route, surveyVars, surveyCalls, requests, learningVars,
                        roadmapCalls, recommendations, completedSinceLoad>>
       ELSE GoTo("recommendations")
  /\ UNCHANGED <<now, storageVars, apiCall, pageVars, mentorVars>>

(***************************************************************************)
(* Learning: fetchLearningRoadmaps from a roadmap response on.             *)
(***************************************************************************)
\* what one mapped promise resolves to
RoadmapResult(response) ==
  IF response.data /= JsonNull /\ response.error = NULL
    THEN response.data ELSE Failed

IsRoadmap(result) == result /= Failed

\* the results are kept as they are, nulls included
ValidRoadmapsUnfiltered(results) == results

\* roadmapResults.filter(roadmap => roadmap !== null)
ValidRoadmaps(results) == SelectSeq(results, IsRoadmap)

SettledAny(results) == \E j \in 1..Len(results) : results[j] /= Pending

\* await Promise.all(roadmapPromises) resumes: no promise is pending
Settled(results) == \A j \in 1..Len(results) : results[j] /= Pending

\* the cache is written without its timestamp
StoreRoadmapsOnly(valid, time) ==
  /\ learningRoadmaps' = Some(valid)
  /\ UNCHANGED learningRoadmapsTimestamp

\* the two setItem calls, one after the other
StoreRoadmaps(valid, time) ==
  /\ learningRoadmaps' = Some(valid)
  /\ learningRoadmapsTimestamp' = Some(DigitString(time))

RoadmapResponse(c, i, outcome) ==
  LET call == roadmapCalls[c]
      results == [call.results EXCEPT
                    ![i] = RoadmapResult(GenerateLearningRoadmap(outcome))]
      settled == Settled(results)
      valid == ValidRoadmaps(results)
  IN
  /\ c \in 1..Len(roadmapCalls)
  /\ i \in 1..Len(call.results)
  /\ call.results[i] = Pending
  /\ IF ~settled
       THEN /\ roadmapCalls' = [roadmapCalls EXCEPT ![c].results = results]
            /\ UNCHANGED <<learningVars, storageVars>>
       ELSE \* Promise.all resolves and the handler runs to its end
         /\ roadmapCalls' = RemoveAt(roadmapCalls, c)
         /\ IF Len(valid) > 0
              THEN /\ StoreRoadmaps(valid, now)
                   /\ IF call.live
                        THEN SetLearning(valid, Some(valid[1]), FALSE, learningError)
                        ELSE UNCHANGED learningVars
              ELSE /\ IF call.live
                        THEN SetLearning(roadmaps, selectedCareer, FALSE,
                               "Unable to generate learning roadmaps. Please try again.")
                        ELSE UNCHANGED learningVars
                   /\ UNCHANGED <<learningRoadmaps, learningRoadmapsTimestamp>>
         /\ UNCHANGED surveyResults
  /\ UNCHANGED <<route, now, surveyVars, surveyCalls, timerVars, requests,
                 recommendations, apiCall, pageVars, mentorVars, completedSinceLoad>>

(***************************************************************************)
(* The Mentors view (pages/Mentors) and the Find Mentors button of the     *)
(* Recommendations view.  localStorage.mentorMatchingData holds text: the  *)
(* JSON of an object, the JSON null, or text JSON.parse rejects.           *)
(***************************************************************************)
Unparseable == [unparseable |-> TRUE]

\* a JSON array, where a body may also be an object
JsonArray(xs) == [array |-> xs]
IsArray(v) == Has(v, "array")

RankLabelZeroBased(index) == index

\* Rank #{index + 1}
RankLabel(index) == index + 1

\* Recommendations render: recommendations.map((career, index) => <Card>),
\* index counting from 0
RecommendationCards ==
  [i \in 1..Len(recommendations) |->
     [career |-> recommendations[i], rank |-> RankLabel(i - 1)]]

\* Recommendations, Find Mentors: the object written under mentorMatchingData
MentorData(recs, stored) ==
  [careers |-> recs,
   sessionData |-> IF stored /= None THEN stored[1].sessionData ELSE EmptyObject,
   fromRecommendations |-> TRUE]

\* what an earlier session may have left under mentorMatchingData
StoredMentorMatchingData ==
  {None, Some(Unparseable), Some(JsonNull),
   Some([sessionData |-> EmptyObject]),
   Some([careers |-> <<>>, sessionData |-> EmptyObject]),
   Some([careers |-> <<"c2", "c1">>, sessionData |-> EmptyObject])}

MatchMentorsBodies ==
  {JsonNull, [count |-> 0], [mentors |-> <<>>], [mentors |-> <<"m2">>]}

GetMentorsBodies ==
  {JsonNull, [count |-> 0], JsonArray(<<"m1">>), [mentors |-> <<"m1", "m3">>]}

MatchMentorsOutcomes == HttpOutcomes(MatchMentorsBodies)
GetMentorsOutcomes == HttpOutcomes(GetMentorsBodies)

GetMentors(outcome) == FetchWithErrorHandling(outcome)
MatchMentors(outcome) == FetchWithErrorHandling(outcome)
GetPersonalizedMentors(outcome) == MatchMentors(outcome)

\* fetchMentors: JSON.parse, the destructuring and the validation of careers
\* all pass, so that the personalized request is sent
PayloadIsUsable(text) ==
  /\ text /= Unparseable
  /\ text /= JsonNull
  /\ Has(text, "careers")
  /\ Len(text.careers) > 0

MatchMentorsCall(inst, text, write) ==
  [op |-> "match-mentors", inst |-> inst, write |-> write,
   request |-> [selected_career |-> text.careers[1],
                session_data |-> IF Has(text, "sessionData")
                                   THEN text.sessionData ELSE EmptyObject]]

GetMentorsCall(inst) == [op |-> "mentors", inst |-> inst]

\* a call is live while the Mentors instance that made it is mounted
MentorsLive(call) == route = "mentors" /\ call.inst = mentorsInstance

SetMentors(list, filtered, personalized, loading, err) ==
  /\ mentors' = list
  /\ filteredMentors' = filtered
  /\ isPersonalized' = personalized
  /\ mentorsIsLoading' = loading
  /\ mentorsError' = err

\* the useState initial values
MentorsInitialState == SetMentors(<<>>, <<>>, FALSE, TRUE, NULL)

MentorsScreen ==
  IF route /= "mentors" THEN "unmounted"
  ELSE IF mentorsIsLoading THEN "loading"
  ELSE IF mentorsError /= NULL THEN "error"
  ELSE "list"

\* The Mentors view mounts over `stored` under mentorMatchingData, put there
\* by write number `write`, while `calls` are in flight: fetchMentors runs up
\* to its first await.
MountMentors(calls, stored, write) ==
  LET inst == mentorsInstance + 1 IN
  /\ mentorsInstance' = inst
  /\ MentorsInitialState
  /\ IF stored /= None /\ PayloadIsUsable(stored[1])
       THEN /\ mentorMatchingData' = stored
            /\ mentorCalls' =
                 Append(calls, MatchMentorsCall(inst, stored[1], write))
            /\ requests' = Sent("match-mentors")
            /\ payloadUses' = [payloadUses EXCEPT ![write] = @ + 1]
       ELSE /\ mentorMatchingData' = None
            /\ mentorCalls' = Append(calls, GetMentorsCall(inst))
            /\ requests' = Sent("mentors")
            /\ UNCHANGED payloadUses

MentorRoutes == {"dashboard", "recommendations", "mentors"}

\* a click on a link of the sidebar, among the views of this part
MentorsNavigate(target) ==
  /\ target /= route
  /\ target = "mentors" => mentorsInstance < MaxMentorLoads
  /\ HasStoredRecommendations
  /\ route' = target
  /\ recommendations' =
       IF target = "recommendations" THEN surveyResults[1].recommendations
       ELSE <<>>
  /\ IF target = "mentors"
       THEN MountMentors(mentorCalls, mentorMatchingData, payloadWrites)
       ELSE /\ MentorsInitialState
            /\ UNCHANGED <<mentorMatchingData, mentorCalls, mentorsInstance,
                           requests, payloadUses>>
  /\ UNCHANGED <<now, surveyVars, surveyCalls, timerVars, storageVars,
                 learningVars, roadmapCalls, apiCall, pageVars, completedSinceLoad,
                 payloadWrites>>

\* Recommendations, the Find Mentors button
FindMentors ==
  /\ route = "recommendations"
  /\ Len(recommendations) > 0
  /\ payloadWrites < MaxPayloadWrites
  /\ mentorsInstance < MaxMentorLoads
  /\ payloadWrites' = payloadWrites + 1
  /\ route' = "mentors"
  /\ recommendations' = <<>>
  /\ MountMentors(mentorCalls, Some(MentorData(recommendations, surveyResults)),
                  payloadWrites + 1)
  /\ UNCHANGED <<now, surveyVars, surveyCalls, timerVars, storageVars,
                 learningVars, roadmapCalls, apiCall, pageVars, completedSinceLoad>>

PersonalizedFallsBackOnErrorOnly(response, mentorsData) ==
  response.error /= NULL

\* fetchMentors throws inside the inner try: the request failed or brought
\* no mentor
PersonalizedFallsBack(response, mentorsData) ==
  response.error /= NULL \/ Len(mentorsData) = 0

\* response.data?.mentors || []
MentorsDataOf(response) ==
  IF response.data /= JsonNull /\ Has(response.data, "mentors")
    THEN response.data.mentors ELSE <<>>

\* the response to a personalized request arrives: fetchMentors runs on to
\* its return or, through the inner catch, to the await of getMentors
PersonalizedResponse(i, outcome) ==
  LET call == mentorCalls[i]
      response == GetPersonalizedMentors(outcome)
      mentorsData == MentorsDataOf(response)
  IN
  /\ call.op = "match-mentors"
  /\ mentorMatchingData' = None
  /\ IF PersonalizedFallsBack(response, mentorsData)
       THEN /\ mentorCalls' =
                 Append(RemoveAt(mentorCalls, i), GetMentorsCall(call.inst))
            /\ requests' = Sent("mentors")
            /\ UNCHANGED <<mentors, filteredMentors, isPersonalized,
                           mentorsIsLoading, mentorsError>>
       ELSE /\ mentorCalls' = RemoveAt(mentorCalls, i)
            /\ UNCHANGED requests
            /\ IF MentorsLive(call)
                 THEN SetMentors(mentorsData, mentorsData, TRUE, FALSE,
                                 mentorsError)
                 ELSE UNCHANGED <<mentors, filteredMentors, isPersonalized,
                                  mentorsIsLoading, mentorsError>>
  /\ UNCHANGED <<route, now, surveyVars, surveyCalls, timerVars, storageVars,
                 learningVars, roadmapCalls, recommendations, apiCall, pageVars,
                 completedSinceLoad, mentorsInstance, payloadWrites,
                 payloadUses>>

\* the body of a getMentors response is an array or carries one
IsMentorList(data) ==
  data /= JsonNull /\ (IsArray(data) \/ Has(data, "mentors"))

MentorListOf(data) == IF IsArray(data) THEN data.array ELSE data.mentors

\* the response to the general request arrives: fetchMentors runs to its end
GetMentorsResponse(i, outcome) ==
  LET call == mentorCalls[i]
      response == GetMentors(outcome)
      message == IF response.error /= NULL THEN response.error
                 ELSE "Invalid mentor data format received from server"
  IN
  /\ call.op = "mentors"
  /\ mentorCalls' = RemoveAt(mentorCalls, i)
  /\ IF ~MentorsLive(call)
       THEN UNCHANGED <<mentors, filteredMentors, isPersonalized,
                        mentorsIsLoading, mentorsError>>
     ELSE IF response.error = NULL /\ IsMentorList(response.data)
       THEN SetMentors(MentorListOf(response.data), MentorListOf(response.data),
                       FALSE, FALSE, mentorsError)
     ELSE SetMentors(<<>>, <<>>, isPersonalized, FALSE, message)
  /\ UNCHANGED <<route, now, surveyVars, surveyCalls, timerVars, requests,
                 storageVars, learningVars, roadmapCalls, recommendations,
                 apiCall, pageVars, completedSinceLoad, mentorMatchingData,
                 mentorsInstance, payloadWrites, payloadUses>>

\* the Retry button of the error screen: window.location.reload() ends the
\* page and every handler of it, the Mentors view mounts anew
MentorsRetry ==
  /\ MentorsScreen = "error"
  /\ mentorsInstance < MaxMentorLoads
  /\ MountMentors(<<>>, mentorMatchingData, payloadWrites)
  /\ UNCHANGED <<route, now, surveyVars, surveyCalls, timerVars, storageVars,
                 learningVars, roadmapCalls, recommendations, apiCall, pageVars,
                 completedSinceLoad, payloadWrites>>

\* the Load Regular Mentors button of the error screen:
\* localStorage.removeItem('mentorMatchingData'), then the reload
LoadRegularMentors ==
  /\ MentorsScreen = "error"
  /\ mentorsInstance < MaxMentorLoads
  /\ MountMentors(<<>>, None, payloadWrites)
  /\ UNCHANGED <<route, now, surveyVars, surveyCalls, timerVars, storageVars,
                 learningVars, roadmapCalls, recommendations, apiCall, pageVars,
                 completedSinceLoad, payloadWrites>>

(***************************************************************************)
(* The application from a browser with empty localStorage, on the          *)
(* dashboard.                                                              *)
(***************************************************************************)
(***************************************************************************)
(* Text rendering (Learning and Growth views).  A string is the sequence   *)
(* of its characters; "bullet" and the icon names stand for one symbol     *)
(* each.  A JavaScript value carries its type; an object is the sequence   *)
(* of its entries in Object.entries order.                                 *)
(***************************************************************************)
JsUndefined == [type |-> "undefined"]
JsNull == [type |-> "null"]
JsString(chars) == [type |-> "string", chars |-> chars]
JsNumber(n) == [type |-> "number", n |-> n]
JsArray(items) == [type |-> "array", items |-> items]
JsObject(entries) == [type |-> "object", entries |-> entries]
Entry(key, value) == [key |-> key, value |-> value]

\* typeof
TypeOf(v) == IF v.type \in {"null", "array", "object"} THEN "object" ELSE v.type

\* !v
IsFalsy(v) ==
  \/ v.type \in {"undefined", "null"}
  \/ v.type = "string" /\ v.chars = <<>>
  \/ v.type = "number" /\ v.n = 0

Bullet == "bullet"
Backtick == "backtick"
Whitespace == {" ", "\n", "\t"}
UpperCase ==
  {"A", "B", "C", "D", "E", "F", "G", "H", "I", "J", "K", "L", "M",
   "N", "O", "P", "Q", "R", "S", "T", "U", "V", "W", "X", "Y", "Z"}
JsonPunctuation == {"{", "}", "[", "]", "\""}

\* lit occurs in s at index i
StartsAt(s, i, lit) ==
  /\ i + Len(lit) - 1 <= Len(s)
  /\ \A k \in 1..Len(lit) : s[i + k - 1] = lit[k]

\* s.includes(lit)
Includes(s, lit) == \E i \in 1..(Len(s) + 1) : StartsAt(s, i, lit)

RECURSIVE ReplaceFrom(_, _, _, _)
ReplaceFrom(s, i, lit, with) ==
  IF i > Len(s) THEN <<>>
  ELSE IF StartsAt(s, i, lit)
         THEN with \o ReplaceFrom(s, i + Len(lit), lit, with)
         ELSE <<s[i]>> \o ReplaceFrom(s, i + 1, lit, with)

\* s.replace(/lit/g, with), lit a literal
ReplaceAll(s, lit, with) == ReplaceFrom(s, 1, lit, with)

\* s.replace(/[class]/g, '')
RemoveChars(s, class) == SelectSeq(s, LAMBDA c : c \notin class)

RECURSIVE TrimStart(_)
TrimStart(s) ==
  IF s /= <<>> /\ Head(s) \in Whitespace THEN TrimStart(Tail(s)) ELSE s

RECURSIVE TrimEnd(_)
TrimEnd(s) ==
  IF s /= <<>> /\ s[Len(s)] \in Whitespace
    THEN TrimEnd(SubSeq(s, 1, Len(s) - 1))
    ELSE s

\* s.trim()
Trim(s) == TrimEnd(TrimStart(s))

RECURSIVE Join(_, _)
\* parts.join(sep)
Join(parts, sep) ==
  IF parts = <<>> THEN <<>>
  ELSE IF Len(parts) = 1 THEN parts[1]
  ELSE parts[1] \o sep \o Join(Tail(parts), sep)

RECURSIVE SplitFrom(_, _, _, _)
SplitFrom(s, i, sep, piece) ==
  IF i > Len(s) THEN <<piece>>
  ELSE IF StartsAt(s, i, sep)
         THEN <<piece>> \o SplitFrom(s, i + Len(sep), sep, <<>>)
         ELSE SplitFrom(s, i + 1, sep, Append(piece, s[i]))

\* s.split(sep), sep a non-empty literal
Split(s, sep) == SplitFrom(s, 1, sep, <<>>)

\* the first index from i on that holds no whitespace (Len(s) + 1 if none)
RECURSIVE SkipWhitespace(_, _)
SkipWhitespace(s, i) ==
  IF i <= Len(s) /\ s[i] \in Whitespace THEN SkipWhitespace(s, i + 1) ELSE i

\* where the longest match of /\n\s*\n/ that starts at i ends, 0 if none
BlankLinesEnd(s, i) ==
  IF s[i] /= "\n" THEN 0
  ELSE LET last == SkipWhitespace(s, i + 1) - 1
           ends == {j \in (i + 1)..last : s[j] = "\n"}
       IN IF ends = {} THEN 0 ELSE CHOOSE j \in ends : \A k \in ends : k <= j

RECURSIVE CollapseBlankLinesFrom(_, _)
CollapseBlankLinesFrom(s, i) ==
  IF i > Len(s) THEN <<>>
  ELSE IF BlankLinesEnd(s, i) > 0
         THEN <<"\n">> \o CollapseBlankLinesFrom(s, BlankLinesEnd(s, i) + 1)
         ELSE <<s[i]>> \o CollapseBlankLinesFrom(s, i + 1)

\* s.replace(/\n\s*\n/g, '\n')
CollapseBlankLines(s) == CollapseBlankLinesFrom(s, 1)

RECURSIVE CommasToBulletsFrom(_, _)
CommasToBulletsFrom(s, i) ==
  IF i > Len(s) THEN <<>>
  ELSE IF s[i] = ","
         THEN <<"\n", Bullet, " ">>
                \o CommasToBulletsFrom(s, SkipWhitespace(s, i + 1))
         ELSE <<s[i]>> \o CommasToBulletsFrom(s, i + 1)

\* s.replace(/,\s*/g, '\n• ')
CommasToBullets(s) == CommasToBulletsFrom(s, 1)

\* s.replace(/^\s*/, '• ')
BulletPrefix(s) == <<Bullet, " ">> \o TrimStart(s)

\* s.replace(/([A-Z])/g, ' $1')
SpaceBeforeCapitals(s) ==
  Join([i \in 1..Len(s) |->
          IF s[i] \in UpperCase THEN <<" ", s[i]>> ELSE <<s[i]>>], <<>>)

DataNotAvailable == <<"D", "a", "t", "a", " ", "n", "o", "t", " ", "a", "v", "a", "i", "l", "a", "b", "l", "e">>
FocusAreasKey == <<"\"", "F", "o", "c", "u", "s", " ", "A", "r", "e", "a", "s", "\"">>
DescriptionKey == <<"\"", "D", "e", "s", "c", "r", "i", "p", "t", "i", "o", "n", "\"">>
MilestonesKey == <<"\"", "M", "i", "l", "e", "s", "t", "o", "n", "e", "s", "\"">>
PlainLimit == 500

\* the chain of replacements of cleanMarkdownText
CleanMarkdown(s) ==
  Trim(CollapseBlankLines(
    ReplaceAll(ReplaceAll(ReplaceAll(ReplaceAll(ReplaceAll(ReplaceAll(s,
      <<"*", "*">>, <<>>), <<"*">>, <<>>), <<"_">>, <<>>), <<Backtick>>, <<>>),
      <<"~">>, <<>>), <<"#">>, <<>>)))

\* text.replace exists on strings only
cleanMarkdownText(text) ==
  IF text.type = "string"
    THEN Completed(CleanMarkdown(text.chars))
    ELSE Thrown("TypeError: text.replace is not a function")

\* the contents of the brackets of every match of /key\s*\[(.*?)\]/g from
\* index i on: the first "]" closes, and "." matches no line break
RECURSIVE BracketGroups(_, _, _)
BracketGroups(s, i, key) ==
  IF i > Len(s) THEN <<>>
  ELSE LET open == SkipWhitespace(s, i + Len(key))
           closers == {k \in (open + 1)..Len(s) : s[k] = "]"}
           close == CHOOSE k \in closers : \A m \in closers : k <= m
       IN IF /\ StartsAt(s, i, key)
             /\ open <= Len(s)
             /\ s[open] = "["
             /\ closers /= {}
             /\ \A m \in (open + 1)..(close - 1) : s[m] /= "\n"
            THEN <<SubSeq(s, open + 1, close - 1)>>
                   \o BracketGroups(s, close + 1, key)
            ELSE BracketGroups(s, i + 1, key)

\* the quoted text of every match of /key\s*"([^"]+)"/g from index i on
RECURSIVE QuotedGroups(_, _, _)
QuotedGroups(s, i, key) ==
  IF i > Len(s) THEN <<>>
  ELSE LET open == SkipWhitespace(s, i + Len(key))
           closers == {k \in (open + 1)..Len(s) : s[k] = "\""}
           close == CHOOSE k \in closers : \A m \in closers : k <= m
       IN IF /\ StartsAt(s, i, key)
             /\ open <= Len(s)
             /\ s[open] = "\""
             /\ closers /= {}
             /\ close > open + 1
            THEN <<SubSeq(s, open + 1, close - 1)>>
                   \o QuotedGroups(s, close + 1, key)
            ELSE QuotedGroups(s, i + 1, key)

\* one bracket group as lines, each item behind a mark
ItemLines(group, mark) ==
  LET items == Split(group, <<"\"", ",", " ", "\"">>)
  IN Join([i \in 1..Len(items) |->
             <<mark, " ">> \o RemoveChars(items[i], {"\""})], <<"\n">>)

GroupLines(groups, mark) ==
  Join([i \in 1..Len(groups) |-> ItemLines(groups[i], mark)], <<"\n">>)

\* The body of the try block; the inner match of each map runs on a string
\* the outer pattern matched, so it is never null and nothing is thrown.
parseStructuredLearningData(data) ==
  LET focusAreasMatch == BracketGroups(data, 1, FocusAreasKey \o <<":">>)
      descMatch == QuotedGroups(data, 1, DescriptionKey \o <<":">>)
      milestoneMatch == BracketGroups(data, 1, MilestonesKey \o <<":">>)
      sections ==
        (IF focusAreasMatch /= <<>>
           THEN <<GroupLines(focusAreasMatch, Bullet)>> ELSE <<>>)
        \o [i \in 1..Len(descMatch) |-> <<"clipboard", " ">> \o descMatch[i]]
        \o (IF milestoneMatch /= <<>>
              THEN <<GroupLines(milestoneMatch, "target")>> ELSE <<>>)
  IN Completed(CleanMarkdown(Join(sections, <<"\n", "\n">>)))

getIconForSection(key) ==
  IF Includes(key, <<"f", "o", "c", "u", "s">>) \/ Includes(key, <<"s", "k", "i", "l", "l">>) THEN "books"
  ELSE IF Includes(key, <<"m", "i", "l", "e", "s", "t", "o", "n", "e">>) \/ Includes(key, <<"g", "o", "a", "l">>) THEN "target"
  ELSE IF Includes(key, <<"p", "r", "o", "j", "e", "c", "t">>) THEN "briefcase"
  ELSE IF Includes(key, <<"r", "e", "s", "o", "u", "r", "c", "e">>) \/ Includes(key, <<"c", "o", "u", "r", "s", "e">>) THEN "book"
  ELSE IF Includes(key, <<"t", "i", "m", "e", "l", "i", "n", "e">>) \/ Includes(key, <<"d", "u", "r", "a", "t", "i", "o", "n">>) THEN "clock"
  ELSE Bullet

AllStrings(items) == \A i \in 1..Len(items) : items[i].type = "string"

\* one section of formatObjectData, or the TypeError its evaluation raises:
\* cleanMarkdownText of a value that is no string, Object.entries(null)
Section(entry) ==
  LET key == entry.key
      value == entry.value
      cleanKey == Trim(SpaceBeforeCapitals(ReplaceAll(key, <<"_">>, <<" ">>)))
      head == <<getIconForSection(key), " ">> \o cleanKey \o <<":">>
  IN IF value.type = "array"
       THEN IF AllStrings(value.items)
              THEN Completed(head \o <<"\n">> \o
                     Join([i \in 1..Len(value.items) |->
                             <<" ", " ", Bullet, " ">>
                               \o CleanMarkdown(value.items[i].chars)],
                          <<"\n">>))
              ELSE Thrown("TypeError: text.replace is not a function")
     ELSE IF value.type = "null"
       THEN Thrown("TypeError: Cannot convert undefined or null to object")
     ELSE IF value.type = "object"
       THEN IF \A i \in 1..Len(value.entries) :
                  value.entries[i].value.type = "string"
              THEN Completed(head \o <<"\n">> \o
                     Join([i \in 1..Len(value.entries) |->
                             <<" ", " ", Bullet, " ">>
                               \o ReplaceAll(value.entries[i].key, <<"_">>, <<" ">>)
                               \o <<":", " ">>
                               \o CleanMarkdown(value.entries[i].value.chars)],
                          <<"\n">>))
              ELSE Thrown("TypeError: text.replace is not a function")
     ELSE IF value.type = "string"
       THEN Completed(head \o <<" ">> \o CleanMarkdown(value.chars))
     ELSE Thrown("TypeError: text.replace is not a function")

formatObjectData(obj) ==
  IF obj.type = "array"
    THEN IF AllStrings(obj.items)
           THEN Completed(
                  Join([i \in 1..Len(obj.items) |->
                          <<Bullet, " ">> \o CleanMarkdown(obj.items[i].chars)],
                       <<"\n">>))
           ELSE Thrown("TypeError: text.replace is not a function")
    ELSE LET sections == [i \in 1..Len(obj.entries) |-> Section(obj.entries[i])]
             thrown == {i \in 1..Len(sections) : sections[i].threw}
         IN IF thrown /= {}
              THEN sections[CHOOSE i \in thrown : \A j \in thrown : i <= j]
              ELSE Completed(
                     Join([i \in 1..Len(sections) |-> sections[i].data],
                          <<"\n", "\n">>))

formatRoadmapText(text) ==
  IF IsFalsy(text) THEN Completed(DataNotAvailable)
  ELSE IF /\ text.type = "string"
          /\ ~Includes(text.chars, <<"{">>)
          /\ ~Includes(text.chars, FocusAreasKey)
          /\ Len(text.chars) < PlainLimit
    THEN cleanMarkdownText(text)
  ELSE IF /\ text.type = "string"
          /\ \/ Includes(text.chars, FocusAreasKey)
             \/ Includes(text.chars, <<"{", "\"">>)
    THEN parseStructuredLearningData(text.chars)
  ELSE IF TypeOf(text) = "object" THEN formatObjectData(text)
  ELSE IF cleanMarkdownText(text).threw THEN cleanMarkdownText(text)
  ELSE Completed(
         Trim(BulletPrefix(CommasToBullets(
           ReplaceAll(RemoveChars(cleanMarkdownText(text).data,
                                  JsonPunctuation),
                      <<"_">>, <<" ">>)))))

(***************************************************************************)
(* JSON.parse over the characters the modelled texts are made of: strings  *)
(* without escapes, unsigned integers, the three literals, arrays and      *)
(* objects.                                                                *)
(***************************************************************************)
JsBoolean(b) == [type |-> "boolean", b |-> b]
JsonWhitespace == {" ", "\n", "\t", "\r"}
DigitChars == <<"0", "1", "2", "3", "4", "5", "6", "7", "8", "9">>
Digits == {DigitChars[i] : i \in 1..10}
DigitValue(c) == (CHOOSE i \in 1..10 : DigitChars[i] = c) - 1

\* the character at index i, "" past the end
At(s, i) == IF i \in 1..Len(s) THEN s[i] ELSE ""

RECURSIVE NumberOf(_)
NumberOf(ds) ==
  IF ds = <<>> THEN 0
  ELSE 10 * NumberOf(SubSeq(ds, 1, Len(ds) - 1)) + DigitValue(ds[Len(ds)])

RECURSIVE NumberString(_)
NumberString(n) ==
  IF n < 10 THEN <<DigitChars[n + 1]>>
  ELSE NumberString(n \div 10) \o <<DigitChars[(n % 10) + 1]>>

RECURSIVE SkipJsonWhitespace(_, _)
SkipJsonWhitespace(s, i) ==
  IF At(s, i) \in JsonWhitespace THEN SkipJsonWhitespace(s, i + 1) ELSE i

RECURSIVE DigitsEnd(_, _)
\* the last index of the run of digits that starts at i
DigitsEnd(s, i) == IF At(s, i + 1) \in Digits THEN DigitsEnd(s, i + 1) ELSE i

ParseFailed == [ok |-> FALSE]
Parsed(value, next) == [ok |-> TRUE, value |-> value, next |-> next]

\* a string token whose opening quote is at index i
ParseString(s, i) ==
  LET closers == {k \in (i + 1)..Len(s) : s[k] = "\""}
      close == CHOOSE k \in closers : \A m \in closers : k <= m
  IN IF /\ At(s, i) = "\""
        /\ closers /= {}
        /\ \A m \in (i + 1)..(close - 1) : s[m] \notin {"\n", "\t", "\r", "\\"}
       THEN Parsed(SubSeq(s, i + 1, close - 1), close + 1)
       ELSE ParseFailed

\* an array index in the sense of property order: "0", "1", "2", ...
IsArrayIndex(key) ==
  /\ key /= <<>>
  /\ \A i \in 1..Len(key) : key[i] \in Digits
  /\ key[1] = "0" => Len(key) = 1
  /\ Len(key) <= 9

\* the entries of the object built from the members in source order: a
\* repeated key keeps its first place and its last value, and array index
\* keys come first in ascending order
ObjectEntries(pairs) ==
  LET firsts == SelectSeq([i \in 1..Len(pairs) |-> i],
                          LAMBDA i : \A j \in 1..(i - 1) :
                                       pairs[j].key /= pairs[i].key)
      LastOf(key) == CHOOSE i \in 1..Len(pairs) :
                       /\ pairs[i].key = key
                       /\ \A j \in (i + 1)..Len(pairs) : pairs[j].key /= key
      entries == [n \in 1..Len(firsts) |->
                    Entry(pairs[firsts[n]].key,
                          pairs[LastOf(pairs[firsts[n]].key)].value)]
  IN SortSeq(SelectSeq(entries, LAMBDA e : IsArrayIndex(e.key)),
             LAMBDA a, b : NumberOf(a.key) < NumberOf(b.key))
       \o SelectSeq(entries, LAMBDA e : ~IsArrayIndex(e.key))

RECURSIVE ParseValue(_, _)
RECURSIVE ParseElements(_, _, _)
RECURSIVE ParseMembers(_, _, _)

\* the elements of an array from index i on, items being those before
ParseElements(s, i, items) ==
  LET element == ParseValue(s, i)
      after == SkipJsonWhitespace(s, element.next)
  IN IF ~element.ok THEN ParseFailed
     ELSE IF At(s, after) = ","
       THEN ParseElements(s, after + 1, Append(items, element.value))
     ELSE IF At(s, after) = "]"
       THEN Parsed(JsArray(Append(items, element.value)), after + 1)
     ELSE ParseFailed

\* the members of an object from index i on, pairs being those before
ParseMembers(s, i, pairs) ==
  LET key == ParseString(s, SkipJsonWhitespace(s, i))
      colon == SkipJsonWhitespace(s, key.next)
      member == ParseValue(s, colon + 1)
      after == SkipJsonWhitespace(s, member.next)
      all == Append(pairs, Entry(key.value, member.value))
  IN IF ~key.ok THEN ParseFailed
     ELSE IF At(s, colon) /= ":" THEN ParseFailed
     ELSE IF ~member.ok THEN ParseFailed
     ELSE IF At(s, after) = "," THEN ParseMembers(s, after + 1, all)
     ELSE IF At(s, after) = "}"
       THEN Parsed(JsObject(ObjectEntries(all)), after + 1)
     ELSE ParseFailed

\* the JSON value that starts at index i, after whitespace
ParseValue(s, i) ==
  LET j == SkipJsonWhitespace(s, i)
      c == At(s, j)
  IN IF c = "\"" THEN
       IF ParseString(s, j).ok
         THEN Parsed(JsString(ParseString(s, j).value), ParseString(s, j).next)
         ELSE ParseFailed
     ELSE IF c = "0" THEN Parsed(JsNumber(0), j + 1)
     ELSE IF c \in Digits
       THEN Parsed(JsNumber(NumberOf(SubSeq(s, j, DigitsEnd(s, j)))),
                   DigitsEnd(s, j) + 1)
     ELSE IF c = "[" THEN
       IF At(s, SkipJsonWhitespace(s, j + 1)) = "]"
         THEN Parsed(JsArray(<<>>), SkipJsonWhitespace(s, j + 1) + 1)
         ELSE ParseElements(s, j + 1, <<>>)
     ELSE IF c = "{" THEN
       IF At(s, SkipJsonWhitespace(s, j + 1)) = "}"
         THEN Parsed(JsObject(<<>>), SkipJsonWhitespace(s, j + 1) + 1)
         ELSE ParseMembers(s, j + 1, <<>>)
     ELSE IF StartsAt(s, j, <<"n", "u", "l", "l">>) THEN Parsed(JsNull, j + 4)
     ELSE IF StartsAt(s, j, <<"t", "r", "u", "e">>) THEN Parsed(JsBoolean(TRUE), j + 4)
     ELSE IF StartsAt(s, j, <<"f", "a", "l", "s", "e">>) THEN Parsed(JsBoolean(FALSE), j + 5)
     ELSE ParseFailed

\* JSON.parse(text): the value, or the SyntaxError
JsonParse(text) ==
  IF /\ ParseValue(text, 1).ok
     /\ SkipJsonWhitespace(text, ParseValue(text, 1).next) > Len(text)
    THEN Completed(ParseValue(text, 1).value)
    ELSE Thrown("SyntaxError")

RECURSIVE StringOf(_)
\* `${v}`
StringOf(v) ==
  IF v.type = "string" THEN v.chars
  ELSE IF v.type = "number" THEN NumberString(v.n)
  ELSE IF v.type = "boolean" THEN (IF v.b THEN <<"t", "r", "u", "e">> ELSE <<"f", "a", "l", "s", "e">>)
  ELSE IF v.type = "null" THEN <<"n", "u", "l", "l">>
  ELSE IF v.type = "undefined" THEN <<"u", "n", "d", "e", "f", "i", "n", "e", "d">>
  ELSE IF v.type = "array"
    THEN Join([i \in 1..Len(v.items) |->
                 IF v.items[i].type \in {"null", "undefined"}
                   THEN <<>> ELSE StringOf(v.items[i])], <<",">>)
  ELSE <<"[", "o", "b", "j", "e", "c", "t", " ", "O", "b", "j", "e", "c", "t", "]">>

(***************************************************************************)
(* The Growth view's text rendering.                                       *)
(***************************************************************************)
BeingUpdated == <<"I", "n", "f", "o", "r", "m", "a", "t", "i", "o", "n", " ", "b", "e", "i", "n", "g", " ", "u", "p", "d", "a", "t", "e", "d", ".", ".", ".">>
TrendPlainLimit == 1000

RECURSIVE CollapseWhitespaceFrom(_, _)
CollapseWhitespaceFrom(s, i) ==
  IF i > Len(s) THEN <<>>
  ELSE IF s[i] \in Whitespace
         THEN <<" ">> \o CollapseWhitespaceFrom(s, SkipWhitespace(s, i))
         ELSE <<s[i]>> \o CollapseWhitespaceFrom(s, i + 1)

\* s.replace(/\s+/g, ' ')
CollapseWhitespace(s) == CollapseWhitespaceFrom(s, 1)

\* one section of formatObjectToText, or the TypeError of Object.entries(null)
TrendSection(entry) ==
  LET value == entry.value
      cleanKey ==
        Trim(SpaceBeforeCapitals(ReplaceAll(entry.key, <<"_">>, <<" ">>)))
  IN IF value.type = "array"
       THEN Completed(cleanKey \o <<":", "\n">> \o
              Join([i \in 1..Len(value.items) |->
                      <<" ", " ", Bullet, " ">> \o StringOf(value.items[i])],
                   <<"\n">>))
     ELSE IF value.type = "null"
       THEN Thrown("TypeError: Cannot convert undefined or null to object")
     ELSE IF value.type = "object"
       THEN Completed(cleanKey \o <<":", "\n">> \o
              Join([i \in 1..Len(value.entries) |->
                      <<" ", " ", Bullet, " ">>
                        \o ReplaceAll(value.entries[i].key, <<"_">>, <<" ">>)
                        \o <<":", " ">>
                        \o StringOf(value.entries[i].value)],
                   <<"\n">>))
     ELSE Completed(cleanKey \o <<":", " ">> \o StringOf(value))

formatObjectToText(obj) ==
  IF obj.type = "string" THEN Completed(obj.chars)
  ELSE IF obj.type = "array"
    THEN Completed(Join([i \in 1..Len(obj.items) |->
                           <<Bullet, " ">> \o StringOf(obj.items[i])],
                        <<"\n">>))
  ELSE IF obj.type = "null"
    THEN Thrown("TypeError: Cannot convert undefined or null to object")
  ELSE LET sections ==
             [i \in 1..Len(obj.entries) |-> TrendSection(obj.entries[i])]
           thrown == {i \in 1..Len(sections) : sections[i].threw}
       IN IF thrown /= {}
            THEN sections[CHOOSE i \in thrown : \A j \in thrown : i <= j]
            ELSE Completed(Join([i \in 1..Len(sections) |-> sections[i].data],
                                <<"\n", "\n">>))

\* the catch block of cleanStructuredText
CleanManually(text) ==
  Trim(ReplaceAll(
    CollapseWhitespace(CollapseBlankLines(BulletPrefix(
      ReplaceAll(CommasToBullets(RemoveChars(text, JsonPunctuation)),
                 <<":">>, <<":", " ">>)))),
    <<"\n", Bullet, " ", "\n">>, <<"\n">>))

\* the catch takes the SyntaxError of JSON.parse and whatever
\* formatObjectToText throws
cleanStructuredText(text) ==
  LET parsed == JsonParse(text)
  IN IF parsed.threw THEN CleanManually(text)
     ELSE IF TypeOf(parsed.data) = "object"
       THEN IF formatObjectToText(parsed.data).threw
              THEN CleanManually(text)
              ELSE formatObjectToText(parsed.data).data
     ELSE text

formatTrendText(text) ==
  IF text = <<>> \/ text = BeingUpdated THEN DataNotAvailable
  ELSE IF /\ ~Includes(text, <<"{">>)
          /\ ~Includes(text, <<"\"">>)
          /\ Len(text) < TrendPlainLimit
    THEN text
  ELSE IF \/ Includes(text, <<"{">>)
          \/ Includes(text, <<"\"">>)
          \/ Includes(text, <<"[">>)
    THEN cleanStructuredText(text)
  ELSE text

(***************************************************************************)
(* The Growth view.                                                        *)
(***************************************************************************)
CareerFields == {"technology", "healthcare"}
TimePeriods == {"6months", "1year"}

\* the trends the server generates for a field and a period
IndustryTrends(field, period) == [field |-> field, period |-> period]

GetIndustryTrendsBodies(field, period) ==
  {JsonNull, IndustryTrends(field, period)}

GetIndustryTrends(outcome) ==
  LET try == TryFetchInline(outcome) IN
  IF try.threw THEN ErrorResult(try.message) ELSE SuccessResult(try.data)

SetGrowth(field, period, tr, loading, err) ==
  /\ selectedField' = field
  /\ selectedPeriod' = period
  /\ trends' = tr
  /\ growthIsLoading' = loading
  /\ growthError' = err

GrowthInitialState == SetGrowth("technology", "6months", JsonNull, TRUE, NULL)

\* a call is live while the Growth instance that made it is mounted
GrowthLive(call) == route = "growth" /\ call.inst = growthInstance

\* the loading screen is never rendered
GrowthScreenWithoutLoading ==
  IF growthError /= NULL THEN "error" ELSE "insights"

\* what the Growth view renders; only "insights" has the two selects
GrowthScreen ==
  IF growthIsLoading THEN "loading"
  ELSE IF growthError /= NULL THEN "error"
  ELSE "insights"

\* the effect: fetchTrends up to its await
FetchTrends(calls, field, period, inst) ==
  /\ trendRequests < MaxTrendRequests
  /\ trendCalls' = Append(calls, [field |-> field, period |-> period, inst |-> inst])
  /\ trendRequests' = trendRequests + 1

\* a new Growth instance mounts and its effect runs
MountGrowth(calls) ==
  /\ GrowthInitialState
  /\ growthInstance' = growthInstance + 1
  /\ FetchTrends(calls, "technology", "6months", growthInstance + 1)

GrowthRoutes == {"dashboard", "growth"}

\* a sidebar link; requests in flight stay in flight
GrowthNavigate(target) ==
  /\ target /= route
  /\ route' = target
  /\ IF target = "growth"
       THEN MountGrowth(trendCalls)
       ELSE UNCHANGED growthVars
  /\ UNCHANGED <<now, surveyVars, surveyCalls, timerVars, requests,
                 storageVars, learningVars, roadmapCalls, recommendations,
                 apiCall, completedSinceLoad, mentorVars, textVars,
                 checkboxVars>>

\* window.location.reload(), by the Retry button or the browser
GrowthReload ==
  /\ route = "growth"
  /\ MountGrowth(<<>>)
  /\ UNCHANGED <<route, now, surveyVars, surveyCalls, timerVars, requests,
                 storageVars, learningVars, roadmapCalls, recommendations,
                 apiCall, completedSinceLoad, mentorVars, textVars,
                 checkboxVars>>

\* onValueChange of the field select, and the effect that follows
SelectField(field) ==
  /\ route = "growth"
  /\ GrowthScreen = "insights"
  /\ field /= selectedField
  /\ SetGrowth(field, selectedPeriod, trends, TRUE, growthError)
  /\ FetchTrends(trendCalls, field, selectedPeriod, growthInstance)
  /\ UNCHANGED growthInstance
  /\ UNCHANGED <<route, now, surveyVars, surveyCalls, timerVars, requests,
                 storageVars, learningVars, roadmapCalls, recommendations,
                 apiCall, completedSinceLoad, mentorVars, textVars,
                 checkboxVars>>

\* onValueChange of the period select, and the effect that follows
SelectPeriod(period) ==
  /\ route = "growth"
  /\ GrowthScreen = "insights"
  /\ period /= selectedPeriod
  /\ SetGrowth(selectedField, period, trends, TRUE, growthError)
  /\ FetchTrends(trendCalls, selectedField, period, growthInstance)
  /\ UNCHANGED growthInstance
  /\ UNCHANGED <<route, now, surveyVars, surveyCalls, timerVars, requests,
                 storageVars, learningVars, roadmapCalls, recommendations,
                 apiCall, completedSinceLoad, mentorVars, textVars,
                 checkboxVars>>

\* fetchTrends from the response on
TrendsResponse(i, outcome) ==
  LET call == trendCalls[i]
      response == GetIndustryTrends(outcome)
  IN
  /\ i \in 1..Len(trendCalls)
  /\ trendCalls' = RemoveAt(trendCalls, i)
  /\ IF GrowthLive(call)
       THEN IF response.error /= NULL
              THEN SetGrowth(selectedField, selectedPeriod, trends, FALSE,
                             response.error)
              ELSE SetGrowth(selectedField, selectedPeriod, response.data,
                             FALSE, growthError)
       ELSE UNCHANGED <<selectedField, selectedPeriod, trends,
                        growthIsLoading, growthError>>
  /\ UNCHANGED <<growthInstance, trendRequests>>
  /\ UNCHANGED <<route, now, surveyVars, surveyCalls, timerVars, requests,
                 storageVars, learningVars, roadmapCalls, recommendations,
                 apiCall, completedSinceLoad, mentorVars, textVars,
                 checkboxVars>>

\* the Growth view has not been mounted
IdleGrowth ==
  /\ selectedField = "technology"
  /\ selectedPeriod = "6months"
  /\ trends = JsonNull
  /\ growthIsLoading = TRUE
  /\ growthError = NULL
  /\ trendCalls = <<>>
  /\ growthInstance = 0
  /\ trendRequests = 0

(***************************************************************************)
(* Survey: a checkbox question.  Its answer is one string, the selected    *)
(* options joined by ", ".                                                 *)
(***************************************************************************)
Separator == <<",", " ">>

\* prev[questionId] ? prev[questionId].split(', ') : []
CurrentAnswers(answer) ==
  IF answer /= <<>> THEN Split(answer, Separator) ELSE <<>>

\* the value the updater of handleCheckboxChange records for the question
handleCheckboxChange(answer, option, checked) ==
  LET currentAnswers == CurrentAnswers(answer)
      newAnswers ==
        IF checked
          THEN Append(currentAnswers, option)
          ELSE SelectSeq(currentAnswers, LAMBDA ans : ans /= option)
  IN Join(newAnswers, Separator)

\* currentAnswers.includes(option)
IsChecked(answer, option) ==
  \E k \in DOMAIN CurrentAnswers(answer) : CurrentAnswers(answer)[k] = option

\* canProceed of a required question
CheckboxCanProceed(answer) == answer /= <<>>

\* a click on the i-th checkbox: onCheckedChange with the opposite of checked
ClickCheckbox(i) ==
  LET option == checkboxOptions[i]
      checked == ~IsChecked(checkboxAnswer, option)
      answer == handleCheckboxChange(checkboxAnswer, option, checked)
  IN
  /\ i \in DOMAIN checkboxOptions
  /\ Len(answer) <= MaxAnswerLen
  /\ checkboxAnswer' = answer
  /\ checkboxLast' = Some([option |-> option, checked |-> checked,
                           before |-> checkboxAnswer])
  /\ UNCHANGED checkboxOptions
  /\ UNCHANGED <<route, now, surveyVars, surveyCalls, timerVars, requests,
                 storageVars, learningVars, roadmapCalls, recommendations,
                 apiCall, completedSinceLoad, mentorVars, textVars, growthVars>>

\* no checkbox question is on display
IdleCheckbox ==
  /\ checkboxOptions = <<>>
  /\ checkboxAnswer = <<>>
  /\ checkboxLast = None

\* nothing has been handed to the normalizers
IdleText ==
  /\ rawText = JsUndefined
  /\ roadmapText = None
  /\ roadmapTextTwice = None
  /\ trendText = None

IdlePages == IdleText /\ IdleGrowth /\ IdleCheckbox

NoApiCall == [op |-> "none"]

\* no view is mounted yet and nothing has been sent
InitialViews ==
  /\ route = "dashboard"
  /\ currentStep = "initial"
  /\ initialQuestions = <<>>
  /\ adaptiveQuestions = <<>>
  /\ currentQuestionIndex = 0
  /\ answers = NoAnswers
  /\ isSubmitting = FALSE
  /\ isLoading = TRUE
  /\ error = NULL
  /\ sessionId = NULL
  /\ sessionData = EmptyObject
  /\ surveyCalls = <<>>
  /\ navTimers = <<>>
  /\ handedOff = {}
  /\ completedSinceLoad = FALSE
  /\ requests = [e \in Endpoints |-> 0]
  /\ roadmaps = <<>>
  /\ selectedCareer = None
  /\ learningIsLoading = TRUE
  /\ learningError = NULL
  /\ roadmapCalls = <<>>
  /\ recommendations = <<>>
  /\ mentors = <<>>
  /\ filteredMentors = <<>>
  /\ isPersonalized = FALSE
  /\ mentorsIsLoading = TRUE
  /\ mentorsError = NULL
  /\ mentorCalls = <<>>
  /\ mentorsInstance = 0
  /\ payloadWrites = 0
  /\ payloadUses = [w \in 0..MaxPayloadWrites |-> 0]

Init ==
  /\ InitialViews
  /\ IdlePages
  /\ now = 0
  /\ surveyResults = None
  /\ learningRoadmaps = None
  /\ learningRoadmapsTimestamp = None
  /\ apiCall = NoApiCall
  /\ mentorMatchingData = None

\* The survey, the router and localStorage; the Learning view is left out
\* and the clock stands still.
SurveyRoutes == {"dashboard", "survey", "recommendations"}

StartSessionOutcomes == HttpOutcomes(StartSessionBodies(InitialQuestionLists))
SubmitInitialOutcomes == HttpOutcomes(SubmitInitialBodies(AdaptiveQuestionLists))
CompleteSurveyOutcomes ==
  HttpOutcomes(CompleteSurveyBodies(ShortRecommendationLists))

Next ==
  \/ \E target \in SurveyRoutes : NavigateTo(target)
  \/ Reload
  \/ \E i \in 1..Len(surveyCalls) :
       \E outcome \in StartSessionOutcomes :
         StartSessionResponse(i, outcome)
  \/ \E value \in AnswerChoices : SetAnswer(value)
  \/ Previous
  \/ HandleNext
  \/ \E i \in 1..Len(surveyCalls) :
       \E outcome \in SubmitInitialOutcomes :
         SubmitInitialResponse(i, outcome)
  \/ \E i \in 1..Len(surveyCalls) :
       \E outcome \in CompleteSurveyOutcomes :
         CompleteSurveyResponse(i, outcome)
  \/ NavigateTimer

Spec == Init /\ [][Next]_vars

(***************************************************************************)
(* The whole application: the survey, the Learning view, the router, the   *)
(* clock and localStorage, with a server that asks one optional initial    *)
(* question and no adaptive ones, and a user who leaves it unanswered.     *)
(***************************************************************************)
AppInitialQuestionLists == { <<Question("a1", FALSE)>> }
AppAdaptiveQuestionLists == {}
AppRecommendationLists == { <<"c1">>, <<"c2", "c1">> }

NextApp ==
  \/ \E target \in Routes :
       NavigateTo(target) /\ RoadmapBudget(MaxAppRoadmapRequests)
  \/ Reload
  \/ Tick
  \/ \E i \in 1..Len(surveyCalls) :
       \E outcome \in HttpOutcomes(StartSessionBodies(AppInitialQuestionLists)) :
         StartSessionResponse(i, outcome)
  \/ HandleNext
  \/ \E i \in 1..Len(surveyCalls) :
       \E outcome \in HttpOutcomes(SubmitInitialBodies(AppAdaptiveQuestionLists)) :
         SubmitInitialResponse(i, outcome)
  \/ \E i \in 1..Len(surveyCalls) :
       \E outcome \in HttpOutcomes(CompleteSurveyBodies(AppRecommendationLists)) :
         CompleteSurveyResponse(i, outcome)
  \/ NavigateTimer /\ RoadmapBudget(MaxAppRoadmapRequests)
  \/ \E c \in 1..Len(roadmapCalls) :
       \E i \in 1..Len(roadmapCalls[c].results) :
         \E outcome \in HttpOutcomes(RoadmapBodies(roadmapCalls[c].careers[i])) :
           RoadmapResponse(c, i, outcome)

SpecApp == Init /\ [][NextApp]_vars

(***************************************************************************)
(* The Learning view over what an earlier session may have left in         *)
(* localStorage: a survey result or none, and either key of the roadmap    *)
(* cache or none.                                                          *)
(***************************************************************************)
StoredSurveyResults ==
  {None,
   Some([sessionId |-> "s1", sessionData |-> EmptyObject,
         completedAt |-> IsoString(0)])}
    \cup
    {Some([sessionId |-> "s1", sessionData |-> EmptyObject,
           recommendations |-> r, completedAt |-> IsoString(t)]) :
       r \in {<<>>} \cup RecommendationLists, t \in 0..MaxStamp}

StoredRoadmapLists ==
  {None, Some(<<>>), Some(<<Roadmap("c1")>>),
   Some(<<Roadmap("c1"), Roadmap("c3")>>)}

StoredTimestamps == {None} \cup {Some(DigitString(t)) : t \in 0..MaxStamp}

InitLearning ==
  /\ InitialViews
  /\ IdlePages
  /\ now = MaxStamp
  /\ surveyResults \in StoredSurveyResults
  /\ learningRoadmaps \in StoredRoadmapLists
  /\ learningRoadmapsTimestamp \in StoredTimestamps
  /\ apiCall = NoApiCall
  /\ mentorMatchingData = None

LearningRoutes == {"dashboard", "learning", "recommendations"}

NextLearning ==
  \/ \E target \in LearningRoutes :
       NavigateTo(target) /\ RoadmapBudget(MaxRoadmapRequests)
  \/ \E c \in 1..Len(roadmapCalls) :
       \E i \in 1..Len(roadmapCalls[c].results) :
         \E outcome \in HttpOutcomes(RoadmapBodies(roadmapCalls[c].careers[i])) :
           RoadmapResponse(c, i, outcome)

SpecLearning == InitLearning /\ [][NextLearning]_vars

(***************************************************************************)
(* One call of an ApiService operation, over every outcome of its HTTP     *)
(* exchange.                                                               *)
(***************************************************************************)
ApiStatuses == {200, 201, 404, 500}
ApiBodies == {JsonNull, [ok |-> TRUE]}

PendingPromise == [state |-> "pending"]
Fulfilled(value) == [state |-> "fulfilled", value |-> value]

ApiCalls ==
  {[op |-> op, outcome |-> outcome, promise |-> PendingPromise] :
     op \in ApiOperations, outcome \in HttpOutcomesWith(ApiStatuses, ApiBodies)}

InitApi ==
  /\ InitialViews
  /\ IdlePages
  /\ now = 0
  /\ surveyResults = None
  /\ learningRoadmaps = None
  /\ learningRoadmapsTimestamp = None
  /\ apiCall \in ApiCalls
  /\ mentorMatchingData = None

\* the exchange ends and the async method runs to its return
ApiCallSettles ==
  /\ apiCall /= NoApiCall
  /\ apiCall.promise = PendingPromise
  /\ apiCall' =
       [apiCall EXCEPT !.promise = Fulfilled(ApiResult(apiCall.op, apiCall.outcome))]
  /\ UNCHANGED <<route, now, surveyVars, surveyCalls, timerVars, requests,
                 storageVars, learningVars, roadmapCalls, recommendations,
                 completedSinceLoad, mentorVars, pageVars>>

NextApi == ApiCallSettles

SpecApi == InitApi /\ [][NextApi]_vars

(***************************************************************************)
(* The Mentors view and the Recommendations view over what an earlier      *)
(* session may have left in localStorage: a survey result with             *)
(* recommendations, and any text under mentorMatchingData or none.         *)
(***************************************************************************)
MentorsStoredSurveyResults ==
  {Some([sessionId |-> "s1", sessionData |-> sd, recommendations |-> r,
         completedAt |-> IsoString(0)]) :
     sd \in {EmptyObject, [q1 |-> "x"]},
     r \in {<<"c1">>, <<"c3", "c1">>, <<"c3", "c1", "c3">>}}

InitMentors ==
  /\ InitialViews
  /\ IdlePages
  /\ now = 0
  /\ surveyResults \in MentorsStoredSurveyResults
  /\ learningRoadmaps = None
  /\ learningRoadmapsTimestamp = None
  /\ mentorMatchingData \in StoredMentorMatchingData
  /\ apiCall = NoApiCall

NextMentors ==
  \/ \E target \in MentorRoutes : MentorsNavigate(target)
  \/ FindMentors
  \/ \E i \in 1..Len(mentorCalls) :
       \E outcome \in MatchMentorsOutcomes : PersonalizedResponse(i, outcome)
  \/ \E i \in 1..Len(mentorCalls) :
       \E outcome \in GetMentorsOutcomes : GetMentorsResponse(i, outcome)
  \/ MentorsRetry
  \/ LoadRegularMentors

SpecMentors == InitMentors /\ [][NextMentors]_vars

(***************************************************************************)
(* One survey from end to end: the server answers every request, with five *)
(* initial questions, three adaptive ones and four recommendations, all    *)
(* questions required; the user enters the survey once, answers each       *)
(* question, possibly changing an answer, and presses Next once it is      *)
(* answered, but not in the 100 ms between the completion and the          *)
(* navigation to the recommendations.                                      *)
(***************************************************************************)
ScenarioInitialQuestions ==
  <<Question("q1", TRUE), Question("q2", TRUE), Question("q3", TRUE),
    Question("q4", TRUE), Question("q5", TRUE)>>
ScenarioAdaptiveQuestions ==
  <<Question("a1", TRUE), Question("a2", TRUE), Question("a3", TRUE)>>
ScenarioRecommendations == <<"c3", "c1", "c4", "c2">>
ScenarioValues == {"x", "y"}

Ok200(body) == [transport |-> "ok", status |-> 200, body |-> Some(body)]

ScenarioStartSession ==
  Ok200([session_id |-> "s1", questions |-> ScenarioInitialQuestions])
ScenarioSubmitInitial ==
  Ok200([adaptive_questions |-> ScenarioAdaptiveQuestions])
ScenarioCompleteSurvey == Ok200([recommendations |-> ScenarioRecommendations])

\* the user opens the survey from the dashboard
ScenarioEnter == route = "dashboard" /\ NavigateTo("survey")

ScenarioSetAnswer == \E value \in ScenarioValues : SetAnswer(value)

ScenarioNext == navTimers = <<>> /\ HandleNext

ScenarioStartSessionResponse ==
  \E i \in 1..Len(surveyCalls) : StartSessionResponse(i, ScenarioStartSession)

ScenarioSubmitInitialResponse ==
  \E i \in 1..Len(surveyCalls) : SubmitInitialResponse(i, ScenarioSubmitInitial)

ScenarioCompleteSurveyResponse ==
  \E i \in 1..Len(surveyCalls) :
    CompleteSurveyResponse(i, ScenarioCompleteSurvey)

NextScenario ==
  \/ ScenarioEnter
  \/ ScenarioStartSessionResponse
  \/ ScenarioSetAnswer
  \/ ScenarioNext
  \/ ScenarioSubmitInitialResponse
  \/ ScenarioCompleteSurveyResponse
  \/ NavigateTimer

\* every response arrives, the timer fires, and the user goes on
SpecScenario ==
  /\ Init
  /\ [][NextScenario]_vars
  /\ WF_vars(ScenarioEnter)
  /\ WF_vars(ScenarioStartSessionResponse)
  /\ WF_vars(ScenarioSetAnswer)
  /\ WF_vars(ScenarioNext)
  /\ WF_vars(ScenarioSubmitInitialResponse)
  /\ WF_vars(ScenarioCompleteSurveyResponse)
  /\ WF_vars(NavigateTimer)

(***************************************************************************)
(* The two text normalizers over every short text of the characters they   *)
(* treat specially, some longer structured texts, and the values that are  *)
(* no strings.                                                             *)
(***************************************************************************)
TextChars == {"a", "1", " ", "\n", "*", ",", ":", "{", "}", "[", "]", "\""}

ShortTexts == UNION {[1..n -> TextChars] : n \in 0..MaxTextLen}

StructuredTexts ==
  {<<"{", "\"", "F", "o", "c", "u", "s", " ", "A", "r", "e", "a", "s", "\"", ":", " ", "[", "\"", "a", "\"", ",", " ", "\"", "b", "\"", "]", ",", " ", "\"", "D", "e", "s", "c", "r", "i", "p", "t", "i", "o", "n", "\"", ":", " ", "\"", "a", "\"", ",", " ", "\"", "M", "i", "l", "e", "s", "t", "o", "n", "e", "s", "\"", ":", " ", "[", "\"", "a", "\"", "]", "}">>,
   <<"\"", "F", "o", "c", "u", "s", " ", "A", "r", "e", "a", "s", "\"", ":", " ", "[", "\"", "a", "\"", "]">>,
   <<"{", "\"", "D", "e", "s", "c", "r", "i", "p", "t", "i", "o", "n", "\"", ":", " ", "\"", "a", " ", "b", "\"", ",", " ", "\"", "D", "e", "s", "c", "r", "i", "p", "t", "i", "o", "n", "\"", ":", " ", "\"", "b", "\"", "}">>,
   <<"{", "\"", "a", "_", "b", "\"", ":", " ", "[", "\"", "a", "\"", ",", " ", "1", "]", ",", " ", "\"", "1", "\"", ":", " ", "{", "\"", "a", "\"", ":", " ", "\"", "b", "\"", "}", ",", " ", "\"", "a", "\"", ":", " ", "n", "u", "l", "l", "}">>,
   <<"[", "\"", "a", "\"", ",", " ", "{", "\"", "a", "\"", ":", " ", "1", "}", ",", " ", "[", "1", ",", " ", "\"", "b", "\"", "]", "]">>,
   <<"{", "a", ":", " ", "b", ",", " ", "a", "_", "b", "}">>,
   BeingUpdated}

Texts == {JsString(t) : t \in ShortTexts \cup StructuredTexts}

OtherValues ==
  {JsUndefined, JsNull, JsNumber(0), JsNumber(5),
   JsArray(<<>>),
   JsArray(<<JsString(<<"a", "_", "b">>), JsString(<<"a">>)>>),
   JsArray(<<JsString(<<"a">>), JsNumber(1)>>),
   JsArray(<<JsObject(<<Entry(<<"a">>, JsString(<<"a">>))>>)>>),
   JsObject(<<>>),
   JsObject(<<Entry(<<"f", "o", "c", "u", "s", "_", "a", "r", "e", "a", "s">>, JsArray(<<JsString(<<"a">>)>>)),
              Entry(<<"t", "i", "m", "e", "L", "i", "n", "e">>, JsString(<<"a", "_", "b">>)),
              Entry(<<"g", "o", "a", "l">>, JsObject(<<Entry(<<"a", "_", "b">>, JsString(<<"a">>))>>))>>),
   JsObject(<<Entry(<<"d", "u", "r", "a", "t", "i", "o", "n">>, JsNumber(5))>>),
   JsObject(<<Entry(<<"p", "r", "o", "j", "e", "c", "t">>, JsNull)>>),
   JsObject(<<Entry(<<"c", "o", "u", "r", "s", "e">>, JsObject(<<Entry(<<"a">>, JsNumber(1))>>))>>)}

InitText ==
  /\ InitialViews
  /\ now = 0
  /\ surveyResults = None
  /\ learningRoadmaps = None
  /\ learningRoadmapsTimestamp = None
  /\ apiCall = NoApiCall
  /\ mentorMatchingData = None
  /\ IdleGrowth
  /\ IdleCheckbox
  /\ rawText \in Texts \cup OtherValues
  /\ roadmapText = None
  /\ roadmapTextTwice = None
  /\ trendText = None

\* the Learning view renders the value
RenderRoadmapText ==
  /\ roadmapText = None
  /\ roadmapText' = Some(formatRoadmapText(rawText))
  /\ UNCHANGED <<rawText, roadmapTextTwice, trendText>>
  /\ UNCHANGED <<route, now, surveyVars, surveyCalls, timerVars, requests,
                 storageVars, learningVars, roadmapCalls, recommendations,
                 apiCall, completedSinceLoad, mentorVars, growthVars,
                 checkboxVars>>

\* the text it returned is rendered again
RenderRoadmapTextAgain ==
  /\ roadmapText /= None
  /\ ~roadmapText[1].threw
  /\ roadmapTextTwice = None
  /\ roadmapTextTwice' = Some(formatRoadmapText(JsString(roadmapText[1].data)))
  /\ UNCHANGED <<rawText, roadmapText, trendText>>
  /\ UNCHANGED <<route, now, surveyVars, surveyCalls, timerVars, requests,
                 storageVars, learningVars, roadmapCalls, recommendations,
                 apiCall, completedSinceLoad, mentorVars, growthVars,
                 checkboxVars>>

\* the Growth view renders the value, a string by its parameter's type
RenderTrendText ==
  /\ rawText.type = "string"
  /\ trendText = None
  /\ trendText' = Some(formatTrendText(rawText.chars))
  /\ UNCHANGED <<rawText, roadmapText, roadmapTextTwice>>
  /\ UNCHANGED <<route, now, surveyVars, surveyCalls, timerVars, requests,
                 storageVars, learningVars, roadmapCalls, recommendations,
                 apiCall, completedSinceLoad, mentorVars, growthVars,
                 checkboxVars>>

NextText ==
  \/ RenderRoadmapText
  \/ RenderRoadmapTextAgain
  \/ RenderTrendText

SpecText == InitText /\ [][NextText]_vars

(***************************************************************************)
(* The Growth view, the sidebar and the reload, over every outcome and     *)
(* every order of arrival of the trend requests.                           *)
(***************************************************************************)
NextGrowth ==
  \/ \E target \in GrowthRoutes : GrowthNavigate(target)
  \/ GrowthReload
  \/ \E field \in CareerFields : SelectField(field)
  \/ \E period \in TimePeriods : SelectPeriod(period)
  \/ \E i \in 1..Len(trendCalls) :
       \E outcome \in HttpOutcomes(GetIndustryTrendsBodies(trendCalls[i].field,
                                                           trendCalls[i].period)) :
         TrendsResponse(i, outcome)

SpecGrowth == Init /\ [][NextGrowth]_vars

(***************************************************************************)
(* One checkbox question and the clicks on its checkboxes.  The options    *)
(* are the server's; one of them holds a comma followed by a space.        *)
(***************************************************************************)
OptionTexts == { <<"a">>, <<"b">>, <<"a", ",", " ", "b">> }

OptionLists ==
  {options \in UNION {[1..n -> OptionTexts] : n \in 1..3} :
     \A j, k \in DOMAIN options : options[j] = options[k] => j = k}

InitCheckbox ==
  /\ InitialViews
  /\ now = 0
  /\ surveyResults = None
  /\ learningRoadmaps = None
  /\ learningRoadmapsTimestamp = None
  /\ apiCall = NoApiCall
  /\ mentorMatchingData = None
  /\ IdleText
  /\ IdleGrowth
  /\ checkboxOptions \in OptionLists
  /\ checkboxAnswer = <<>>
  /\ checkboxLast = None

NextCheckbox == \E i \in DOMAIN checkboxOptions : ClickCheckbox(i)

SpecCheckbox == InitCheckbox /\ [][NextCheckbox]_vars

(***************************************************************************)
(* Properties.                                                             *)
(***************************************************************************)
\* fetch resolved with a 2xx status and the body parsed
Succeeded(outcome) ==
  /\ outcome.transport = "ok"
  /\ outcome.status \in 200..299
  /\ outcome.body /= None

FailedOutcome(outcome) == ~Succeeded(outcome)

\* the step sends a submit-initial-answers or complete-survey request, and
\* the j-th call of surveyCalls' is the one awaiting it
NewCall(j) ==
  /\ requests'["start-session"] = requests["start-session"]
  /\ \/ requests'["submit-initial-answers"] > requests["submit-initial-answers"]
     \/ requests'["complete-survey"] > requests["complete-survey"]
  /\ j \in 1..Len(surveyCalls')
  /\ j > Len(surveyCalls) \/ surveyCalls'[j].op /= surveyCalls[j].op

\* the render whose handler sent the j-th call
Sender(j) == IF j > Len(surveyCalls) THEN Closure ELSE surveyCalls[j].closure

AnsweredIds(questions, ans) ==
  {questions[i].id : i \in {k \in 1..Len(questions) : Truthy(ans[questions[k].id])}}

\* C1: the session_data of every complete-survey request has a key for each
\* question of the initial and of the adaptive list that the user has
\* answered (a map holds a key once), and for each answered adaptive
\* question the value sent is the recorded answer, also when the key is a
\* key of the initial phase or of the session data carried over from
\* submit-initial-answers.
C1_MergedAnswers ==
  [][\A j \in 1..Len(surveyCalls') :
       (NewCall(j) /\ surveyCalls'[j].op = "complete-survey")
         => LET cl == Sender(j)
                sent == surveyCalls'[j].request.session_data
            IN /\ AnsweredIds(cl.initialQuestions, cl.answers) \subseteq DOMAIN sent
               /\ AnsweredIds(cl.adaptiveQuestions, cl.answers) \subseteq DOMAIN sent
               /\ \A id \in AnsweredIds(cl.adaptiveQuestions, cl.answers) :
                    sent[id] = cl.answers[id]]_vars

\* a complete-survey request in flight whose q1 is the adaptive-phase answer
\* "y", although q1 is an initial question and the carried-over session data
\* had q1 = "srv"
C1_Witness ==
  \E i \in 1..Len(surveyCalls) :
    /\ surveyCalls[i].op = "complete-survey"
    /\ DOMAIN surveyCalls[i].request.session_data = {"q1", "a1", "profile"}
    /\ surveyCalls[i].request.session_data["q1"] = "y"
    /\ surveyCalls[i].request.session_data["profile"] = "srv"

RequiredUnanswered ==
  currentQuestion.required /\ answers[currentQuestion.id] = ""

\* a submit-initial-answers or complete-survey request of the mounted Survey
\* is in flight
TransitionInFlight ==
  \E i \in 1..Len(surveyCalls) :
    IsTransition(surveyCalls[i]) /\ Live(surveyCalls[i])

\* C2, as stated: while a question is displayed, Next is disabled if and only
\* if the question is required and has no non-empty answer.
C2_NextGating == QuestionDisplayed => (NextDisabled <=> RequiredUnanswered)

\* C2, amended: while a question is displayed, Next is disabled if and only
\* if the question is required and has no non-empty answer, or a
\* submit-initial-answers or complete-survey request of the survey is in
\* flight.
C2_NextGatingOrSubmitting ==
  QuestionDisplayed
    => (NextDisabled <=> (RequiredUnanswered \/ TransitionInFlight))

\* an answered question is displayed and Next is disabled, by the request in
\* flight alone
C2_Witness ==
  /\ QuestionDisplayed
  /\ ~RequiredUnanswered
  /\ TransitionInFlight
  /\ NextDisabled

\* C3: in the initial phase Next on a question that is not the last one only
\* increments the index and sends nothing; Next on the last one sends one
\* submit-initial-answers request with the session id and exactly the
\* answered initial questions; and a successful response with
\* adaptive_questions makes the mounted Survey show that list from index 0
\* in the adaptive phase.
C3_InitialNext ==
  [][ /\ (/\ currentStep = "initial"
          /\ currentQuestionIndex < Len(initialQuestions) - 1
          /\ HandleNext)
          => /\ currentQuestionIndex' = currentQuestionIndex + 1
             /\ UNCHANGED <<currentStep, answers, initialQuestions,
                            adaptiveQuestions, sessionData, surveyCalls,
                            requests, storageVars, route>>
      /\ (/\ currentStep = "initial"
          /\ currentQuestionIndex = Len(initialQuestions) - 1
          /\ HandleNext)
          => /\ requests' = [requests EXCEPT !["submit-initial-answers"] = @ + 1]
             /\ Len(surveyCalls') = Len(surveyCalls) + 1
             /\ SubSeq(surveyCalls', 1, Len(surveyCalls)) = surveyCalls
             /\ LET call == surveyCalls'[Len(surveyCalls')] IN
                  /\ call.op = "submit-initial-answers"
                  /\ call.request.session_id = sessionId
                  /\ DOMAIN call.request.session_data
                       = AnsweredIds(initialQuestions, answers)
                  /\ \A id \in AnsweredIds(initialQuestions, answers) :
                       call.request.session_data[id] = answers[id]
      /\ \A i \in 1..Len(surveyCalls) :
           \A outcome \in SubmitInitialOutcomes :
             (/\ Live(surveyCalls[i])
              /\ Succeeded(outcome)
              /\ "adaptive_questions" \in DOMAIN outcome.body[1]
              /\ SubmitInitialResponse(i, outcome))
               => /\ currentStep' = "adaptive"
                  /\ currentQuestionIndex' = 0
                  /\ adaptiveQuestions' = outcome.body[1].adaptive_questions]_vars

\* the adaptive phase shows the first of the two adaptive questions the
\* response carried, after the one submit-initial-answers request
C3_Witness ==
  /\ route = "survey"
  /\ currentStep = "adaptive"
  /\ currentQuestionIndex = 0
  /\ Len(adaptiveQuestions) = 2
  /\ requests["submit-initial-answers"] = 1
  /\ surveyCalls = <<>>

\* adaptive_questions is absent or empty
NoAdaptiveQuestions(body) ==
  \/ "adaptive_questions" \notin DOMAIN body
  \/ body.adaptive_questions = <<>>

\* C4: when submit-initial-answers succeeds without adaptive questions (the
\* field absent, or the list empty) the handler itself requests
\* complete-survey with the initial answers, and the survey is never in the
\* adaptive phase with no adaptive question.
C4_SkipsEmptyAdaptive ==
  [][ /\ \A i \in 1..Len(surveyCalls) :
          \A outcome \in SubmitInitialOutcomes :
            (/\ Succeeded(outcome)
             /\ NoAdaptiveQuestions(outcome.body[1])
             /\ SubmitInitialResponse(i, outcome))
              => /\ requests'["complete-survey"] = requests["complete-survey"] + 1
                 /\ surveyCalls'[i].op = "complete-survey"
                 /\ surveyCalls'[i].request.session_data
                      = surveyCalls[i].request.session_data
      /\ currentStep' = "adaptive" => Len(adaptiveQuestions') > 0]_vars

\* a step of complete-survey succeeding schedules the navigation
CompletionSucceeds == Len(navTimers') > Len(navTimers)

\* C5: a successful complete-survey response writes the SurveyResult
\* (session id, merged answers, recommendations, completion time) and
\* removes both roadmap-cache keys before the navigation is handed over,
\* and a Survey whose navigation has run sends no request any more.
C5_CompletionIsTerminal ==
  [][ /\ \A i \in 1..Len(surveyCalls) :
          \A outcome \in CompleteSurveyOutcomes :
            (Succeeded(outcome) /\ CompleteSurveyResponse(i, outcome))
              => /\ surveyResults' =
                      Some([sessionId |-> surveyCalls[i].request.session_id,
                            sessionData |-> surveyCalls[i].request.session_data,
                            recommendations |->
                              IF "recommendations" \in DOMAIN outcome.body[1]
                                THEN outcome.body[1].recommendations ELSE <<>>,
                            completedAt |-> IsoString(now)])
                 /\ learningRoadmaps' = None
                 /\ learningRoadmapsTimestamp' = None
                 /\ route' = route
                 /\ navTimers' = Append(navTimers, surveyCalls[i].inst)
      /\ \A j \in 1..Len(surveyCalls') :
           NewCall(j) => surveyCalls'[j].inst \notin handedOff]_vars

\* the Learning view mounts
LearningLoad == route /= "learning" /\ route' = "learning"

\* the roadmap cache exists, its generatedAt is greater than completedAt
\* minus one hour, and its list is not empty
StoredCacheUsable ==
  /\ learningRoadmaps /= None
  /\ learningRoadmapsTimestamp /= None
  /\ learningRoadmapsTimestamp[1].digits
       > surveyResults[1].completedAt.iso - HourTicks
  /\ learningRoadmaps[1] /= <<>>

ReusesCache ==
  /\ requests' = requests
  /\ roadmapCalls' = DetachedFanouts(roadmapCalls)
  /\ roadmaps' = learningRoadmaps[1]
  /\ ~learningIsLoading'
  /\ UNCHANGED storageVars

RequestsRoadmaps ==
  /\ requests'["generate-learning-roadmap"]
       > requests["generate-learning-roadmap"]
  /\ learningIsLoading'
  /\ roadmaps' = <<>>

KthOf(set, k) == CHOOSE j \in set : Cardinality({m \in set : m <= j}) = k

\* the roadmaps of the careers whose request did not fail, in rank order
Survivors(careers, results) ==
  LET ok == {j \in 1..Len(careers) : results[j] = Roadmap(careers[j])}
  IN [k \in 1..Cardinality(ok) |-> Roadmap(careers[KthOf(ok, k)])]

C8_CompletionForcesRegeneration ==
  [][ /\ CompletionSucceeds
          => learningRoadmaps' = None /\ learningRoadmapsTimestamp' = None
      /\ (LearningLoad /\ completedSinceLoad)
          => /\ requests'["generate-learning-roadmap"]
                  > requests["generate-learning-roadmap"]
             /\ roadmaps' = <<>>]_vars

ErrorMessages ==
  {"Failed to fetch", "Unexpected end of JSON input", "HTTP error! status: 404",
   "HTTP error! status: 500"}

\* C9: the promise of every ApiService operation is fulfilled, never
\* rejected: with {data: the parsed body} when fetch resolved with a 2xx
\* status and the body parsed, and with {data: null, error: a message} when
\* fetch rejected, the status was not 2xx or the body did not parse.
C9_ApiResults ==
  (apiCall /= NoApiCall /\ apiCall.promise /= PendingPromise)
    => LET o == apiCall.outcome
           failure == \/ o.transport = "failed"
                      \/ o.status \notin 200..299
                      \/ o.body = None
       IN /\ apiCall.promise.state = "fulfilled"
          /\ IF failure
               THEN /\ apiCall.promise.value.data = JsonNull
                    /\ apiCall.promise.value.error \in ErrorMessages
               ELSE /\ apiCall.promise.value.data = o.body[1]
                    /\ apiCall.promise.value.error = NULL

\* submitInitialAnswers has answered a 404 that carried a parseable body
\* with the error variant
C9_Witness ==
  /\ apiCall /= NoApiCall
  /\ apiCall.op = "submitInitialAnswers"
  /\ apiCall.outcome.status = 404
  /\ apiCall.outcome.body = Some([ok |-> TRUE])
  /\ apiCall.promise = Fulfilled(ErrorResult("HTTP error! status: 404"))

\* the effect of a failed transition on the mounted Survey
FailureShown ==
  /\ SurveyScreen' = "error"
  /\ error' \in ErrorMessages
  /\ UNCHANGED <<answers, currentStep, currentQuestionIndex, initialQuestions,
                 adaptiveQuestions, sessionData, storageVars, route, navTimers,
                 requests, recommendations>>

\* C10: when submit-initial-answers or complete-survey of the mounted Survey
\* fails, the error screen is shown and the answers, the phase, the question
\* index, localStorage and the route stay as they were and no navigation is
\* scheduled; on the error screen neither Next nor Previous nor an input is
\* available, only the reload.
C10_FailureKeepsState ==
  [][ /\ \A i \in 1..Len(surveyCalls) :
          \A outcome \in SubmitInitialOutcomes :
            (/\ Live(surveyCalls[i])
             /\ FailedOutcome(outcome)
             /\ SubmitInitialResponse(i, outcome))
              => FailureShown
      /\ \A i \in 1..Len(surveyCalls) :
          \A outcome \in CompleteSurveyOutcomes :
            (/\ Live(surveyCalls[i])
             /\ FailedOutcome(outcome)
             /\ CompleteSurveyResponse(i, outcome))
              => FailureShown
      /\ SurveyScreen = "error"
          => /\ ~HandleNext
             /\ ~Previous
             /\ \A value \in {"", "x", "y"} : ~SetAnswer(value)]_vars

\* the error screen after a failed complete-survey request of the adaptive
\* phase: the answers, the phase and the index are those of the click
C10_Witness ==
  /\ SurveyScreen = "error"
  /\ error = "HTTP error! status: 500"
  /\ currentStep = "adaptive"
  /\ currentQuestionIndex = 1
  /\ answers["a1"] = "x"
  /\ requests["complete-survey"] = 1
  /\ surveyCalls = <<>>
  /\ surveyResults = None

\* C11: the Previous button only decrements the question index: the index
\* stays at or above 0, the phase (in particular adaptive) stays what it
\* was, no request is sent, no call is added or dropped, and no recorded
\* answer and no stored item changes.
C11_PreviousOnlyDecrements ==
  [][Previous
       => /\ currentQuestionIndex' = currentQuestionIndex - 1
          /\ currentQuestionIndex' >= 0
          /\ currentStep' = currentStep
          /\ UNCHANGED <<answers, requests, surveyCalls, initialQuestions,
                         adaptiveQuestions, sessionData, sessionId,
                         storageVars, route, navTimers>>]_vars

\* the first survey of the run is back at its first initial question: the
\* answer to the second one was entered at index 1, and nothing was sent
C11_Witness ==
  /\ QuestionDisplayed
  /\ currentStep = "initial"
  /\ currentQuestionIndex = 0
  /\ answers["a1"] = "x"
  /\ requests["start-session"] = 1
  /\ requests["submit-initial-answers"] = 0

\* the text under mentorMatchingData does not lead to a personalized
\* request: JSON.parse rejects it, or careers is missing or empty
UnusablePayload(text) ==
  \/ text \in {Unparseable, JsonNull}
  \/ ~Has(text, "careers")
  \/ text.careers = <<>>

\* the exchange of a personalized request brings no mentor
NoMentorYielded(outcome) ==
  \/ FailedOutcome(outcome)
  \/ outcome.body[1] = JsonNull
  \/ ~Has(outcome.body[1], "mentors")
  \/ outcome.body[1].mentors = <<>>

\* the step removes the payload and ends by sending the general request of
\* the instance `inst`, which shows nothing as personalized
FallsBackToGetMentors(inst) ==
  /\ mentorMatchingData' = None
  /\ requests' = Sent("mentors")
  /\ Len(mentorCalls') > 0
  /\ mentorCalls'[Len(mentorCalls')] = GetMentorsCall(inst)
  /\ (route' = "mentors" /\ mentorsInstance' = inst) => ~isPersonalized'

\* C12: a load of the Mentors view that finds a mentorMatchingData payload
\* which yields no personalized mentor (the text does not parse, careers is
\* missing or empty, the personalized request fails or brings an empty list)
\* removes the payload and sends the general getMentors request instead; the
\* list that request brings is shown whole and as not personalized.
C12_PersonalizedFallback ==
  [][ /\ ( /\ mentorsInstance' = mentorsInstance + 1
           /\ payloadWrites' = payloadWrites
           /\ mentorMatchingData /= None
           /\ UnusablePayload(mentorMatchingData[1]) )
         => /\ FallsBackToGetMentors(mentorsInstance')
            /\ requests'["match-mentors"] = requests["match-mentors"]
      /\ \A i \in 1..Len(mentorCalls) :
           mentorCalls[i].op = "match-mentors"
             => \A outcome \in MatchMentorsOutcomes :
                  (NoMentorYielded(outcome) /\ PersonalizedResponse(i, outcome))
                    => FallsBackToGetMentors(mentorCalls[i].inst)
      /\ \A i \in 1..Len(mentorCalls) :
           (mentorCalls[i].op = "mentors" /\ MentorsLive(mentorCalls[i]))
             => \A outcome \in GetMentorsOutcomes :
                  ( /\ Succeeded(outcome)
                    /\ IsMentorList(outcome.body[1])
                    /\ GetMentorsResponse(i, outcome) )
                    => /\ mentors' = MentorListOf(outcome.body[1])
                       /\ filteredMentors' = mentors'
                       /\ isPersonalized' = FALSE
                       /\ MentorsScreen' = "list" ]_vars

\* the first Mentors instance sent the personalized request, then the
\* general one, and shows the general list as not personalized
C12_Witness ==
  /\ MentorsScreen = "list"
  /\ mentorsInstance = 1
  /\ requests["match-mentors"] = 1
  /\ requests["mentors"] = 1
  /\ mentorMatchingData = None
  /\ mentors = <<"m1", "m3">>
  /\ filteredMentors = mentors
  /\ ~isPersonalized

\* C13: the mentorMatchingData payload is consumed once: a write of it by
\* the Find Mentors button leads to at most one personalized mentor request.
C13_PayloadConsumedOnce ==
  \A w \in 1..MaxPayloadWrites : payloadUses[w] <= 1

\* C14: the Recommendations view shows one card per stored recommendation,
\* in the order of the stored array, the i-th card (from 0) labelled with
\* rank i + 1: nothing is sorted, filtered or deduplicated.
C14_CardsInStoredOrder ==
  route = "recommendations"
    => LET stored == surveyResults[1].recommendations IN
       /\ Len(RecommendationCards) = Len(stored)
       /\ \A i \in 0..(Len(stored) - 1) :
            /\ RecommendationCards[i + 1].career = stored[i + 1]
            /\ RecommendationCards[i + 1].rank = i + 1

\* the view shows a stored list that is neither sorted nor free of
\* duplicates
C14_Witness ==
  /\ route = "recommendations"
  /\ surveyResults = Some([sessionId |-> "s1", sessionData |-> EmptyObject,
                           recommendations |-> <<"c3", "c1", "c3">>,
                           completedAt |-> IsoString(0)])
  /\ Len(RecommendationCards) = 3

InFlight(op) == \E i \in 1..Len(surveyCalls) : surveyCalls[i].op = op

\* start-session, submit-initial-answers and complete-survey are sent in
\* this order, each after the response to the one before, and once at most
SentInOrder ==
  /\ \A e \in {"start-session", "submit-initial-answers", "complete-survey"} :
       requests[e] <= 1
  /\ requests["submit-initial-answers"] = 1
       => requests["start-session"] = 1 /\ ~InFlight("start-session")
  /\ requests["complete-survey"] = 1
       => /\ requests["submit-initial-answers"] = 1
          /\ ~InFlight("submit-initial-answers")

\* the Recommendations view shows the four recommendations of the
\* complete-survey response, ranked 1 to 4 in the order of the response
FourCardsShown ==
  /\ route = "recommendations"
  /\ Len(RecommendationCards) = 4
  /\ \A i \in 1..4 :
       RecommendationCards[i] = [career |-> ScenarioRecommendations[i], rank |-> i]

\* C15: a survey whose start-session response brings 5 questions, whose
\* submit-initial-answers response brings 3 adaptive questions and whose
\* complete-survey response brings 4 recommendations, every question
\* answered: the three requests are sent in that order, each exactly once,
\* and the Recommendations view ends up showing exactly 4 cards ranked 1 to 4
\* in the order of the response.
C15_EndToEnd ==
  /\ [](SentInOrder /\ (route = "recommendations" => FourCardsShown))
  /\ <>[]( /\ FourCardsShown
           /\ requests["start-session"] = 1
           /\ requests["submit-initial-answers"] = 1
           /\ requests["complete-survey"] = 1
           /\ surveyCalls = <<>>
           /\ \A id \in QIds : Truthy(surveyResults[1].sessionData[id]) )

\* the survey has been handed over: all eight answers are stored and the
\* four cards are shown
C15_Witness ==
  /\ FourCardsShown
  /\ requests["complete-survey"] = 1
  /\ navTimers = <<>>
  /\ DOMAIN surveyResults[1].sessionData = QIds
  /\ surveyResults[1].sessionData["q1"] = "y"

\* localStorage holds no survey result, or one whose recommendations are
\* missing or empty
NoUsableSurveyResult ==
  \/ surveyResults = None
  \/ ~Has(surveyResults[1], "recommendations")
  \/ surveyResults[1].recommendations = <<>>

\* C16: a load of the Recommendations or of the Learning view that finds no
\* stored survey result, or one whose recommendations are missing or empty,
\* redirects to the survey; the view sends no request (the only request of
\* the step is the start-session of the survey that mounts), starts no
\* roadmap generation and writes nothing to localStorage.
C16_RedirectsWithoutEffects ==
  [][\A target \in {"recommendations", "learning"} :
       (NoUsableSurveyResult /\ NavigateTo(target))
         => /\ route' = "survey"
            /\ requests' = Sent("start-session")
            /\ Len(roadmapCalls') = Len(roadmapCalls)
            /\ recommendations' = <<>>
            /\ UNCHANGED <<storageVars, mentorMatchingData>>]_vars

\* the survey was started by a redirect: localStorage holds a result with an
\* empty recommendations array, and no link to the survey was clicked
C16_Witness ==
  /\ route = "survey"
  /\ surveyResults /= None
  /\ Has(surveyResults[1], "recommendations")
  /\ surveyResults[1].recommendations = <<>>
  /\ requests["start-session"] = 1
  /\ requests["generate-learning-roadmap"] = 0

\* the positions of a fan-out whose request has not settled
PendingOf(call) == {j \in 1..Len(call.results) : call.results[j] = Pending}

\* C17: a roadmap regeneration sends all its requests (one per top career,
\* three at most) in the step of the load, before any response is handled;
\* the cache and its timestamp are written only in the step in which the
\* last pending request of a fan-out settles; and what is written is the
\* list of the successful roadmaps in rank order, whatever the order in
\* which the responses arrived.
C17_FanoutThenWrite ==
  [][ /\ (LearningLoad /\ requests' /= requests)
          => LET new == roadmapCalls'[Len(roadmapCalls')]
                 recs == surveyResults[1].recommendations
             IN /\ Len(roadmapCalls') = Len(roadmapCalls) + 1
                /\ Len(new.careers) = Min(3, Len(recs))
                /\ PendingOf(new) = 1..Len(new.careers)
                /\ requests' =
                     [requests EXCEPT
                        !["generate-learning-roadmap"] = @ + Len(new.careers)]
                /\ UNCHANGED storageVars
      /\ (learningRoadmaps' /= learningRoadmaps
            \/ learningRoadmapsTimestamp' /= learningRoadmapsTimestamp)
          => \E c \in 1..Len(roadmapCalls) :
               LET call == roadmapCalls[c] IN
               /\ Cardinality(PendingOf(call)) = 1
               /\ roadmapCalls' = RemoveAt(roadmapCalls, c)
               /\ learningRoadmapsTimestamp' = Some(DigitString(now))
               /\ \E j \in PendingOf(call) :
                    \E last \in {Failed, Roadmap(call.careers[j])} :
                      learningRoadmaps' =
                        Some(Survivors(call.careers,
                                       [call.results EXCEPT ![j] = last]))
    ]_vars

\* of the three requests of a regeneration the third and the second have
\* settled, the first is pending, and nothing has been written
C17_Witness ==
  /\ route = "learning"
  /\ Len(roadmapCalls) = 1
  /\ roadmapCalls[1].careers = <<"c1", "c2", "c3">>
  /\ PendingOf(roadmapCalls[1]) = {1}
  /\ roadmapCalls[1].results[2] = Failed
  /\ roadmapCalls[1].results[3] = Roadmap("c3")
  /\ requests["generate-learning-roadmap"] = 3
  /\ learningRoadmaps = None
  /\ learningRoadmapsTimestamp = None

\* C18: navigation cancels no request: when the Learning view is left while
\* roadmap requests are in flight, every fan-out stays in flight with the
\* results it has; and when the last response of such a fan-out arrives with
\* some roadmap generated, the roadmaps are written to the cache with the
\* current time as timestamp, as for a mounted view.
C18_NoCancellation ==
  [][ /\ (route = "learning" /\ route' /= "learning")
          => /\ Len(roadmapCalls') = Len(roadmapCalls)
             /\ \A c \in 1..Len(roadmapCalls) :
                  /\ roadmapCalls'[c].careers = roadmapCalls[c].careers
                  /\ roadmapCalls'[c].results = roadmapCalls[c].results
                  /\ ~roadmapCalls'[c].live
      /\ \A c \in 1..Len(roadmapCalls) :
           ~roadmapCalls[c].live
             => \A i \in PendingOf(roadmapCalls[c]) :
                  \A outcome \in HttpOutcomes(RoadmapBodies(roadmapCalls[c].careers[i])) :
                    RoadmapResponse(c, i, outcome)
                      => LET call == roadmapCalls[c]
                             failed == \/ FailedOutcome(outcome)
                                       \/ outcome.body[1] = JsonNull
                             results ==
                               [call.results EXCEPT
                                  ![i] = IF failed THEN Failed ELSE outcome.body[1]]
                             kept == Survivors(call.careers, results)
                         IN /\ UNCHANGED learningVars
                            /\ IF PendingOf(call) /= {i}
                                 THEN /\ roadmapCalls'[c].results = results
                                      /\ ~roadmapCalls'[c].live
                                 ELSE kept /= <<>>
                                        => /\ learningRoadmaps' = Some(kept)
                                           /\ learningRoadmapsTimestamp'
                                                = Some(DigitString(now))
    ]_vars

\* the Learning view was left with its request for c1 in flight and opened
\* again: the second request is still pending, and the cache holds what the
\* first one brought
C18_Witness ==
  /\ route = "learning"
  /\ surveyResults /= None
  /\ surveyResults[1].recommendations = <<"c1">>
  /\ requests["generate-learning-roadmap"] = 2
  /\ Len(roadmapCalls) = 1
  /\ roadmapCalls[1].live
  /\ PendingOf(roadmapCalls[1]) = {1}
  /\ learningRoadmaps = Some(<<Roadmap("c1")>>)
  /\ learningRoadmapsTimestamp = Some(DigitString(now))

\* the outcomes of an exchange that make an ApiService operation return an
\* error
FailingOutcomes == {o \in HttpOutcomes({JsonNull}) : FailedOutcome(o)}

\* the Survey mounts and its useEffect calls startSession
SurveyMounts ==
  /\ route' = "survey"
  /\ isLoading'
  /\ error' = NULL
  /\ answers' = NoAnswers
  /\ currentStep' = "initial"
  /\ Len(surveyCalls') > 0
  /\ surveyCalls'[Len(surveyCalls')]
       = StartSessionCall(requests'["start-session"])

\* the user presses Next on the last question of a phase
LastNextPressed(step) ==
  /\ QuestionDisplayed
  /\ currentStep = step
  /\ currentQuestionIndex = Len(currentQuestions) - 1
  /\ ~isSubmitting
  /\ isSubmitting'
  /\ route' = route

\* handleInitialComplete goes on to handleSurveyComplete
ChainsToComplete ==
  \E i \in 1..Len(surveyCalls) :
    /\ surveyCalls[i].op = "submit-initial-answers"
    /\ Len(surveyCalls') = Len(surveyCalls)
    /\ surveyCalls'[i].op = "complete-survey"

\* C19: one invocation of an ApiService operation is one HTTP request, and a
\* failed request is never sent again by the code itself: the step that
\* handles a failed response sends nothing and drops the call, and a request
\* of an operation is only ever sent by the mount of its view (a reload or a
\* navigation), by a press of Next, or by handleInitialComplete going on to
\* complete-survey.
C19_OneRequestNoRetry ==
  [][ /\ \A e \in {"start-session", "submit-initial-answers", "complete-survey"} :
           requests'[e] \in {requests[e], requests[e] + 1}
      /\ requests'["start-session"] /= requests["start-session"]
           => SurveyMounts
      /\ requests'["submit-initial-answers"] /= requests["submit-initial-answers"]
           => LastNextPressed("initial")
      /\ requests'["complete-survey"] /= requests["complete-survey"]
           => LastNextPressed("adaptive") \/ ChainsToComplete
      /\ requests'["generate-learning-roadmap"]
           /= requests["generate-learning-roadmap"]
           => /\ LearningLoad
              /\ requests'["generate-learning-roadmap"]
                   = requests["generate-learning-roadmap"]
                       + Len(roadmapCalls'[Len(roadmapCalls')].results)
      /\ (route' = route /\ surveyCalls' /= surveyCalls)
           => \A i \in 1..Len(surveyCalls) :
                \A o \in FailingOutcomes :
                  ( \/ StartSessionResponse(i, o)
                    \/ SubmitInitialResponse(i, o)
                    \/ CompleteSurveyResponse(i, o) )
                    => /\ requests' = requests
                       /\ surveyCalls' = RemoveAt(surveyCalls, i)
      /\ (route' = route /\ roadmapCalls' /= roadmapCalls)
           => \A c \in 1..Len(roadmapCalls) :
                \A i \in PendingOf(roadmapCalls[c]) :
                  \A o \in FailingOutcomes :
                    RoadmapResponse(c, i, o)
                      => /\ requests' = requests
                         /\ \/ roadmapCalls' = RemoveAt(roadmapCalls, c)
                            \/ roadmapCalls'[c].results[i] = Failed
    ]_vars

\* the one start-session request of the run has failed: the error is shown,
\* no call is in flight and nothing else was sent
C19_Witness ==
  /\ SurveyScreen = "error"
  /\ error = "Failed to fetch"
  /\ requests = [[e \in Endpoints |-> 0] EXCEPT !["start-session"] = 1]
  /\ surveyCalls = <<>>

\* the start-session exchange succeeded and brought questions
BringsQuestions(outcome) ==
  /\ Succeeded(outcome)
  /\ outcome.body[1] /= JsonNull
  /\ Has(outcome.body[1], "questions")
  /\ outcome.body[1].questions /= <<>>

\* the start-session exchange succeeded and brought an empty list
BringsEmptyList(outcome) ==
  /\ Succeeded(outcome)
  /\ outcome.body[1] /= JsonNull
  /\ Has(outcome.body[1], "questions")
  /\ outcome.body[1].questions = <<>>

\* C20: entering the survey sends exactly one start-session request.  When
\* the response succeeds with questions, the survey stores its session id
\* and shows the first of them, in the Initial phase, the list kept in the
\* order received.  When the request fails or the response has no question
\* list, the error screen is shown and no question; an empty list leaves the
\* No Questions Available screen, and no question either.
C20_SessionStart ==
  [][ /\ (route' = "survey"
            /\ (route /= "survey"
                  \/ requests'["start-session"] /= requests["start-session"]))
           => /\ requests' = Sent("start-session")
              /\ Cardinality({j \in 1..Len(surveyCalls') :
                                surveyCalls'[j].op = "start-session"}) = 1
              /\ SurveyScreen' = "loading"
      /\ \A i \in 1..Len(surveyCalls) :
           surveyCalls[i].op = "start-session"
             => \A outcome \in StartSessionOutcomes :
                  StartSessionResponse(i, outcome)
                    => /\ requests' = requests
                       /\ IF BringsQuestions(outcome)
                            THEN /\ sessionId' = outcome.body[1].session_id
                                 /\ initialQuestions' = outcome.body[1].questions
                                 /\ currentStep' = "initial"
                                 /\ currentQuestionIndex' = 0
                                 /\ SurveyScreen' = "question"
                                 /\ currentQuestion' = outcome.body[1].questions[1]
                          ELSE IF BringsEmptyList(outcome)
                            THEN SurveyScreen' = "no-questions"
                          ELSE /\ SurveyScreen' = "error"
                               /\ error' /= NULL
                               /\ initialQuestions' = <<>>
                               /\ sessionId' = NULL
    ]_vars

\* the first survey of the run shows the first question received, nothing
\* answered yet
C20_Witness ==
  /\ SurveyScreen = "question"
  /\ currentStep = "initial"
  /\ currentQuestionIndex = 0
  /\ sessionId = "s1"
  /\ initialQuestions = <<Question("q1", TRUE), Question("a1", FALSE)>>
  /\ currentQuestion = Question("q1", TRUE)
  /\ answers = NoAnswers
  /\ requests = [[e \in Endpoints |-> 0] EXCEPT !["start-session"] = 1]

\* the result holds none of { } [ ] "
NoJsonPunctuation(chars) == \A i \in 1..Len(chars) : chars[i] \notin JsonPunctuation

\* C21: formatRoadmapText is idempotent: a text it returned, handed to it
\* again, comes back unchanged.
C21_Idempotent ==
  roadmapTextTwice /= None => roadmapTextTwice = roadmapText

\* C22: for a string input, neither what formatRoadmapText returns nor what
\* formatTrendText returns holds one of the characters { } [ ] ".
C22_NoJsonPunctuation ==
  rawText.type = "string" =>
    /\ (roadmapText /= None /\ ~roadmapText[1].threw)
         => NoJsonPunctuation(roadmapText[1].data)
    /\ trendText /= None => NoJsonPunctuation(trendText[1])

\* C23: formatRoadmapText returns a string and throws nothing, whatever the
\* value it is given.
C23_NeverThrows ==
  roadmapText /= None => ~roadmapText[1].threw

\* C24: in every state of localStorage the roadmap cache and its timestamp
\* are both present or both absent.
C24_KeysTogether ==
  (learningRoadmaps = None) <=> (learningRoadmapsTimestamp = None)

\* roadmaps were stored, and a survey completed before or after
C24_Witness ==
  /\ learningRoadmaps /= None
  /\ learningRoadmapsTimestamp /= None
  /\ requests["complete-survey"] >= 2

\* the step handles a successful response to the submit-initial-answers
\* call i
SubmitSucceeds(i) ==
  /\ surveyCalls[i].op = "submit-initial-answers"
  /\ \E o \in SubmitInitialOutcomes :
       Succeeded(o) /\ SubmitInitialResponse(i, o)

\* the step handles a successful response to the start-session call i and
\* stores the session id it brought
StartSucceeds(i) ==
  /\ surveyCalls[i].op = "start-session"
  /\ \E o \in StartSessionOutcomes :
       /\ BringsQuestions(o) \/ BringsEmptyList(o)
       /\ sessionId' = o.body[1].session_id
       /\ StartSessionResponse(i, o)

\* C25: a complete-survey request is sent only after start-session and
\* submit-initial-answers of the same Survey have succeeded, and it carries
\* the session id that start-session returned.  It is sent either by the
\* handler of a successful submit-initial-answers response going on, or by
\* Next in the adaptive phase; the adaptive phase is entered only by a
\* successful submit-initial-answers response of the mounted Survey, and a
\* session id is stored only from a successful start-session response of
\* the mounted Survey.  So none is sent in the initial phase before the
\* initial answers were submitted.
C25_CompleteAfterBoth ==
  [][ /\ \A j \in 1..Len(surveyCalls') :
           (NewCall(j) /\ surveyCalls'[j].op = "complete-survey")
             => /\ Sender(j).sessionId /= NULL
                /\ surveyCalls'[j].request.session_id = Sender(j).sessionId
                /\ IF j <= Len(surveyCalls)
                     THEN /\ surveyCalls'[j].inst = surveyCalls[j].inst
                          /\ SubmitSucceeds(j)
                     ELSE /\ currentStep = "adaptive"
                          /\ surveyCalls'[j].inst = Instance
                          /\ route = "survey"
      /\ (currentStep' = "adaptive" /\ currentStep /= "adaptive")
           => \E i \in 1..Len(surveyCalls) :
                Live(surveyCalls[i]) /\ SubmitSucceeds(i)
      /\ (sessionId' /= NULL /\ sessionId' /= sessionId)
           => \E i \in 1..Len(surveyCalls) :
                Live(surveyCalls[i]) /\ StartSucceeds(i)
    ]_vars

\* a complete-survey request sent by Next in the adaptive phase is in
\* flight, after one start-session and one submit-initial-answers request
C25_Witness ==
  /\ currentStep = "adaptive"
  /\ requests["start-session"] = 1
  /\ requests["submit-initial-answers"] = 1
  /\ requests["complete-survey"] = 1
  /\ \E i \in 1..Len(surveyCalls) :
       /\ surveyCalls[i].op = "complete-survey"
       /\ surveyCalls[i].request.session_id = "s1"

\* the submit-initial-answers and complete-survey requests in flight
TransitionsInFlight == {i \in 1..Len(surveyCalls) : IsTransition(surveyCalls[i])}

\* those of the mounted Survey
LiveTransitionsInFlight == {i \in TransitionsInFlight : Live(surveyCalls[i])}

\* C26, as stated: the submitting flag is true exactly while a
\* submit-initial-answers or complete-survey request is in flight, Next is
\* disabled for that time, and at most one such request is in flight at any
\* moment.
C26_OneTransitionInFlight ==
  /\ route = "survey" => (isSubmitting <=> TransitionsInFlight /= {})
  /\ (QuestionDisplayed /\ TransitionsInFlight /= {}) => NextDisabled
  /\ Cardinality(TransitionsInFlight) <= 1

\* C26, amended: the submitting flag of the mounted Survey is true exactly
\* while a submit-initial-answers or complete-survey request of that Survey
\* is in flight, Next is disabled for that time, and at most one such
\* request of the mounted Survey is in flight at any moment; requests of a
\* Survey that was unmounted meanwhile stay in flight beside it.
C26_OneTransitionPerSurvey ==
  /\ route = "survey" => (isSubmitting <=> LiveTransitionsInFlight /= {})
  /\ (QuestionDisplayed /\ LiveTransitionsInFlight /= {}) => NextDisabled
  /\ Cardinality(LiveTransitionsInFlight) <= 1

\* the mounted Survey awaits complete-survey with the flag set while the
\* submit-initial-answers request of an earlier Survey is still in flight
C26_Witness ==
  /\ route = "survey"
  /\ isSubmitting
  /\ \E i \in LiveTransitionsInFlight : surveyCalls[i].op = "complete-survey"
  /\ \E i \in TransitionsInFlight \ LiveTransitionsInFlight :
       surveyCalls[i].op = "submit-initial-answers"

\* the exchange brings no roadmap
BringsNoRoadmap(outcome) ==
  FailedOutcome(outcome) \/ outcome.body[1] = JsonNull

\* C27: when the last request of a regeneration settles and none of its
\* requests has brought a roadmap, the cache and its timestamp stay as they
\* are, and the Learning view that made the requests, if still mounted,
\* shows the error screen and holds no roadmap.
C27_AllFailShowsError ==
  [][\A c \in 1..Len(roadmapCalls) :
       \A i \in PendingOf(roadmapCalls[c]) :
         (/\ PendingOf(roadmapCalls[c]) = {i}
          /\ \A j \in 1..Len(roadmapCalls[c].results) :
               j /= i => roadmapCalls[c].results[j] = Failed)
           => \A outcome \in HttpOutcomes(RoadmapBodies(roadmapCalls[c].careers[i])) :
                (BringsNoRoadmap(outcome) /\ RoadmapResponse(c, i, outcome))
                  => /\ UNCHANGED <<learningRoadmaps, learningRoadmapsTimestamp>>
                     /\ roadmapCalls[c].live
                          => /\ LearningScreen' = "error"
                             /\ learningError' /= NULL
                             /\ roadmaps' = <<>>
                             /\ selectedCareer' = None]_vars

\* the three requests of a regeneration have failed: the error screen is
\* shown, and the stale cache that made the view regenerate is still there
C27_Witness ==
  /\ route = "learning"
  /\ LearningScreen = "error"
  /\ roadmaps = <<>>
  /\ roadmapCalls = <<>>
  /\ requests["generate-learning-roadmap"] = 3
  /\ learningRoadmaps = Some(<<Roadmap("c1")>>)
  /\ learningRoadmapsTimestamp /= None

\* the trend requests of the mounted Growth view that are in flight
LiveTrendCalls == {i \in 1..Len(trendCalls) : GrowthLive(trendCalls[i])}

\* C28: once the trend requests of the Growth view have settled, the view
\* is no longer loading, and the trends it displays are those of the field
\* and of the period selected last, in whatever order the responses of
\* requests in flight together have arrived.
C28_TrendsOfSelection ==
  (route = "growth" /\ LiveTrendCalls = {})
    => /\ GrowthScreen /= "loading"
       /\ (GrowthScreen = "insights" /\ trends /= JsonNull)
            => trends = IndustryTrends(selectedField, selectedPeriod)

\* a request of an earlier Growth instance is still in flight, overtaken by
\* the requests of the mounted one, which displays the trends of the field
\* and the period selected in it
C28_Witness ==
  /\ route = "growth"
  /\ trendCalls /= <<>>
  /\ LiveTrendCalls = {}
  /\ GrowthScreen = "insights"
  /\ selectedField = "healthcare"
  /\ selectedPeriod = "1year"
  /\ trends = IndustryTrends("healthcare", "1year")

\* C29: the SurveyResult persisted by a successful completion of the survey
\* has a non-empty list of recommendations (so that the Recommendations view
\* reached after the completion displays them instead of redirecting to
\* /survey).
C29_PersistedRecommendations ==
  surveyResults /= None => surveyResults[1].recommendations /= <<>>

\* the options whose checkbox is displayed checked
SelectedOptions(answer) ==
  {checkboxOptions[k] : k \in {j \in DOMAIN checkboxOptions :
                                 IsChecked(answer, checkboxOptions[j])}}

\* the recorded answer lists no option twice
NoOptionTwice(answer) ==
  \A j, k \in DOMAIN CurrentAnswers(answer) :
    CurrentAnswers(answer)[j] = CurrentAnswers(answer)[k] => j = k

\* the click unchecks the option that the click before it checked
UnchecksLastChecked ==
  /\ checkboxLast /= None
  /\ checkboxLast[1].checked
  /\ ~IsChecked(checkboxLast[1].before, checkboxLast[1].option)
  /\ checkboxLast'[1].option = checkboxLast[1].option
  /\ ~checkboxLast'[1].checked

\* the click unchecks the only option that is selected
UnchecksLastSelected ==
  /\ ~checkboxLast'[1].checked
  /\ SelectedOptions(checkboxAnswer) = {checkboxLast'[1].option}

\* C30: for a checkbox question, checking an option that is not selected
\* and then unchecking it restores the recorded answer; the recorded answer
\* never lists the same option twice; unchecking the last selected option
\* leaves the question unanswered for the gating of required questions.
C30_CheckboxRoundTrip ==
  [][NextCheckbox =>
       /\ UnchecksLastChecked => checkboxAnswer' = checkboxLast[1].before
       /\ NoOptionTwice(checkboxAnswer')
       /\ UnchecksLastSelected => ~CheckboxCanProceed(checkboxAnswer')]_vars

====
